---- MODULE Spec2Model ----
(***************************************************************************)
(* Model of the incremental multi-module deployment script                 *)
(* (class DeploymentManager and main(), embedded in src/README.md from     *)
(* line 2204 on).                                                          *)
(*                                                                         *)
(* The script is single threaded.  executeCommand is used synchronously    *)
(* everywhere (its result is read on the next line, never awaited), so a   *)
(* call of deployModule runs to completion inside the call; the only       *)
(* suspension points of deployAllModules are `await Promise.all(...)` and  *)
(* the 3 second timer between batches.  The environment (working tree,     *)
(* Git repository, file permissions) is owned by other processes and may   *)
(* change while an external command blocks, while the timer runs and       *)
(* between runs.                                                           *)
(***************************************************************************)
EXTENDS Integers, Sequences, FiniteSets, TLC

\* ------------------------------------------------------------------ bounds
NumModules == 2          \* modules of the workspace in Spec
BatchModules == 5        \* largest workspace in BatchSpec
MaxRuns == 2             \* runs of the script that reach the selection loop
MaxVersion == 1          \* contents a module directory can have: 0..MaxVersion
MaxCommits == 2          \* commits in the Git history
MaxEnvChanges == 1       \* changes the environment makes to files / Git
MaxConcArg == 4          \* largest number given as --concurrency=N

\* ------------------------------------------------------- program constants
MinConcurrency == 1
MaxConcurrency == 3
DefaultConcurrency == 2

Min(a, b) == IF a < b THEN a ELSE b
ValidStages == {"dev", "prod"}
StageArgs == {"dev", "prod", "uat", "staging"}
DefaultStage == "dev"

\* ------------------------------------------------------------- data model
\* Result of calculateModuleHash: a sha256 digest of the module content, or
\* Date.now().toString() when hashing threw.  A digest is 64 hex digits and
\* a timestamp is 13 decimal digits, so the two kinds are never equal.
NoHash == [kind |-> "none", v |-> 0]
ShaHash(content) == [kind |-> "sha", v |-> content]
TimeHash(t) == [kind |-> "ts", v |-> t]

\* gitCommit 0 stands for null (Git not available); commit k is the k-th
\* commit of the history.
NullCommit == 0

VARIABLES
    \* environment
    workspace,          \* the module directories, in directory order
    files,              \* files[m]: content of module m's directory (working tree)
    unreadable,         \* modules holding a file that cannot be read
    commits,            \* Git history: sequence of trees, HEAD is the last
    gitOk,              \* git commands succeed
    stateFile,          \* .kiro/deployment-state.json
    envChanges,         \* number of environment changes so far
    peer                \* a run of the script in another process, on the same state file

\* The modules of the workspace.
Modules == {workspace[k] : k \in DOMAIN workspace}

NoRecord ==
    [present |-> FALSE, deployedAt |-> 0, gitCommit |-> NullCommit,
     fileHash |-> NoHash, stage |-> "none"]

\* A module that was deployed from this workspace earlier and is no longer
\* discovered (its directory or its serverless.yml is gone): it can have a
\* record, and no run selects it.
RemovedModules == {0}

\* The keys a stage's map can have.
RecordKeys == Modules \cup RemovedModules

EmptyMap == [m \in RecordKeys |-> NoRecord]

\* The state document: stage name -> module name -> record.  has[s] tells
\* whether the document has a key for stage s.
EmptyDoc == [s \in ValidStages |-> [has |-> FALSE, map |-> EmptyMap]]

AbsentFile == [status |-> "absent", doc |-> EmptyDoc]
CorruptFile == [status |-> "corrupt", doc |-> EmptyDoc]
\* The file exists and readFileSync throws (no read permission).
UnreadableFile == [status |-> "unreadable", doc |-> EmptyDoc]
\* A state document left by an earlier run for dev that deployed the first
\* module of the workspace.
SeededFile ==
    [status |-> "ok",
     doc |-> [EmptyDoc EXCEPT !["dev"] =
                 [has |-> TRUE,
                  map |-> [EmptyMap EXCEPT ![workspace[1]] =
                              [present |-> TRUE, deployedAt |-> 0, gitCommit |-> 1,
                               fileHash |-> ShaHash(0), stage |-> "dev"]]]]]

VARIABLES
    \* one run of the script
    pc,                 \* "idle" | "batch" | "delay"
    stage,              \* this.stage
    concurrency,
    forceAll,
    previousState,      \* const previousState = this.loadDeploymentState()
    modulesToDeploy,
    i,                  \* index (0 based) of the first module of the batch
    cmd,                \* cmd[j]: deploy action of modulesToDeploy[j]
    deploymentResults,  \* this.deploymentResults
    delays,             \* pacing delays performed in this run
    saved,              \* writeFileSync of this run's state succeeded
    summary,            \* displayDeploymentSummary was called in this run
    outcome,            \* how the last invocation went, "running" during a run
    batch,              \* const batch = modulesToDeploy.slice(i, i + concurrency)
    exitCode,           \* process.exit code of the last invocation, -1 before
    runs,               \* runs so far; also the clock (Date.now())
    \* history
    fileAtStart,        \* the state document as it was when the run started
    lastAttempt,        \* lastAttempt[s][m]: "none" | "ok" | "fail"
    everOk,             \* everOk[s][m]: some attempt of m in s succeeded
    batches,            \* the batches formed so far in this run
    doneOk,             \* the last finished run: its stage, and whether it deployed all it selected and saved
    invocation,         \* what the last invocation was given: --concurrency, process.env
    prevOk,             \* at this run's start: the run before had the same stage, deployed all
                        \* it selected and saved, and the environment has not changed since it started
    quiet               \* no environment change since this run's start

VARIABLES
    \* calculateModuleHash on one module directory, file by file
    moduleDir,          \* the files under the module directory, and its unreadable directories
    hashClock,          \* Date.now() of that process
    hashResults,        \* what the calls of calculateModuleHash returned, in order
    fsOp                \* the change made to the directory between the calls

hashVars == <<moduleDir, hashClock, hashResults, fsOp>>

\* No hash has been computed and the directory is not looked at.
HashIdle ==
    /\ moduleDir = [files |-> {}, locked |-> {}]
    /\ hashClock = 0
    /\ hashResults = << >>
    /\ fsOp = "none"

VARIABLES
    \* my-lib/scripts/publish-packages.js
    pubArgs,            \* process.argv: publish type, registry URL and token given
    pubDirs,            \* what readdirSync gives for services/ and utilities/
    pubPc,              \* "off" | "args" | "sections" | "usage" | "crash" | "done"
    pubSection,         \* the `if (publishType === ...)` block the script is at, 1..5, then 6
    pubIndex,           \* packages of the block already handed to publishPackage
    attempted,          \* the package names publishPackage was called with, in order
    publishResults,     \* publishResults.successful, .failed, .skipped
    pubExit             \* exit code of the script, -1 while it runs

pubVars == <<pubArgs, pubDirs, pubPc, pubSection, pubIndex, attempted,
             publishResults, pubExit>>

NoPublishResults == [successful |-> << >>, failed |-> << >>, skipped |-> << >>]

\* publish-packages.js is not started.
PubIdle ==
    /\ pubArgs = [type |-> "all", registryUrl |-> FALSE, authToken |-> FALSE]
    /\ pubDirs = [services |-> [ok |-> TRUE, entries |-> << >>],
                  utilities |-> [ok |-> TRUE, entries |-> << >>]]
    /\ pubPc = "off"
    /\ pubSection = 1
    /\ pubIndex = 0
    /\ attempted = << >>
    /\ publishResults = NoPublishResults
    /\ pubExit = -1

VARIABLES
    \* scripts/generate-npmrc.js
    targetDir,          \* the consumer directory: whether it exists, its .npmrc, its backups
    genPc,              \* position in generateNpmrc: "ready" | "backup" | "write" | "chmod" | "done" | "thrown"
    genClock,           \* new Date() of that process
    genLog              \* the current call: directory at its start, why it threw, calls so far

genVars == <<targetDir, genPc, genClock, genLog>>

\* No file at the path.
NoFile == [kind |-> "none"]

\* generateNpmrc has not been called; the directory is empty.
NoGenLog == [before |-> NoFile, backupsBefore |-> {}, cause |-> "none", calls |-> 0]
GenIdle ==
    /\ targetDir = [exists |-> TRUE, npmrc |-> NoFile, denied |-> FALSE,
                    backups |-> {}, mode |-> "none"]
    /\ genPc = "ready"
    /\ genClock = 0
    /\ genLog = NoGenLog

VARIABLES
    \* scripts/create-infrastructure.js
    registry,           \* CodeArtifact: which of domain, repository, external connection exist
    ensured             \* the ensure* calls made: resource, client calls issued, result, registry before and after

infraVars == <<registry, ensured>>

\* No ensure* call has been made on an empty registry.
InfraIdle ==
    /\ registry = [domain |-> FALSE, repository |-> FALSE, connection |-> FALSE]
    /\ ensured = << >>

VARIABLES
    \* scripts/setup-codeartifact.js
    setupCfg,           \* the loaded configuration: external connection given, consumer directories
    setupPc,            \* position in main / executeSetup
    setupLog,           \* the steps performed, in order
    setupExit           \* exit code of the setup process, -1 while it runs

setupVars == <<setupCfg, setupPc, setupLog, setupExit>>

\* setup-codeartifact.js is not started.
SetupIdle ==
    /\ setupCfg = [externalConnection |-> FALSE, consumers |-> 0]
    /\ setupPc = "off"
    /\ setupLog = << >>
    /\ setupExit = -1

VARIABLES
    \* resolveEnvVars of scripts/setup-codeartifact.js
    template,           \* the configuration string, as its parts
    procEnv,            \* process.env: the variables that are set
    resolution          \* what resolveEnvVars returned or threw, "none" before the call

substVars == <<template, procEnv, resolution>>

\* resolveEnvVars has not been called.
SubstIdle ==
    /\ template = << >>
    /\ procEnv = {}
    /\ resolution = [status |-> "none", text |-> << >>]

VARIABLES
    \* extractEndpoints of scripts/deploy.js
    deployOutput,       \* the output of a deploy command, as its lines
    endpoints           \* what extractEndpoints returned, "none" before the call

extractVars == <<deployOutput, endpoints>>

\* extractEndpoints has not been called.
ExtractIdle ==
    /\ deployOutput = << >>
    /\ endpoints = [called |-> FALSE, list |-> << >>]

\* The variables of the programs other than the deployment script.
toolVars == <<hashVars, pubVars, genVars, infraVars, setupVars, substVars, extractVars>>

\* What each program leaves alone: the variables of all the others.
notHash == <<pubVars, genVars, infraVars, setupVars, substVars, extractVars>>
notPub == <<hashVars, genVars, infraVars, setupVars, substVars, extractVars>>
notGen == <<hashVars, pubVars, infraVars, setupVars, substVars, extractVars>>
notInfra == <<hashVars, pubVars, genVars, setupVars, substVars, extractVars>>
notSetup == <<hashVars, pubVars, genVars, substVars, extractVars>>
notSubst == <<hashVars, pubVars, genVars, infraVars, setupVars, extractVars>>
notExtract == <<hashVars, pubVars, genVars, infraVars, setupVars, substVars>>

\* The other programs have not been started.
ToolsIdle == HashIdle /\ PubIdle /\ GenIdle /\ InfraIdle /\ SetupIdle /\ SubstIdle /\ ExtractIdle

envVars == <<workspace, files, unreadable, commits, gitOk, envChanges, peer>>
runVars == <<pc, stage, concurrency, forceAll, previousState, modulesToDeploy,
             i, cmd, deploymentResults, delays, saved, summary, outcome, batch,
             exitCode, runs>>
histVars == <<fileAtStart, lastAttempt, everOk, batches, doneOk, prevOk, quiet,
              invocation>>
vars == <<toolVars, workspace, files, unreadable, commits, gitOk, envChanges, peer, stateFile,
          pc, stage, concurrency, forceAll, previousState, modulesToDeploy,
          i, cmd, deploymentResults, delays, saved, summary, outcome, batch,
          exitCode, runs,
          fileAtStart, lastAttempt, everOk, batches, doneOk, prevOk, quiet,
          invocation>>

\* ---------------------------------------------------------------- helpers
\* discoverModules(): the modules of the workspace in directory order; none
\* when the script is run where there is no module (found = FALSE).
discoverModules(found) == IF found THEN workspace ELSE << >>

\* Mutant of loadDeploymentState: when the document has no entry for the
\* stage, the entry of a stage that has one is returned.
loadDeploymentStateAnyStage(file, stg) ==
    IF file.status = "ok" /\ stg \in ValidStages /\ file.doc[stg].has
    THEN file.doc[stg].map
    ELSE IF file.status = "ok" /\ \E s \in ValidStages : file.doc[s].has
    THEN file.doc[CHOOSE s \in ValidStages : file.doc[s].has].map
    ELSE EmptyMap

\* loadDeploymentState(): state[this.stage] || {}, and {} when the file is
\* absent or cannot be parsed.
loadDeploymentState(file, stg) ==
    IF file.status = "ok" /\ stg \in ValidStages /\ file.doc[stg].has
    THEN file.doc[stg].map
    ELSE EmptyMap

\* Mutant of saveDeploymentState: the document is rebuilt from nothing.
saveDeploymentStateFresh(file, stg, moduleStates, writeOk) ==
    IF file.status \in {"corrupt", "unreadable"} \/ ~writeOk
    THEN file
    ELSE [status |-> "ok",
          doc |-> [s \in ValidStages |->
                      IF s = stg THEN [has |-> TRUE, map |-> moduleStates]
                      ELSE [has |-> FALSE, map |-> EmptyMap]]]

\* Mutant of saveDeploymentState: a record of the document that is newer than
\* the one being saved is kept.
saveDeploymentStateMerge(file, stg, moduleStates, writeOk) ==
    IF file.status \in {"corrupt", "unreadable"} \/ ~writeOk
    THEN file
    ELSE [status |-> "ok",
          doc |-> [file.doc EXCEPT ![stg] =
                      [has |-> TRUE,
                       map |-> [m \in DOMAIN moduleStates |->
                                   IF /\ file.doc[stg].map[m].present
                                      /\ file.doc[stg].map[m].deployedAt
                                            > moduleStates[m].deployedAt
                                   THEN file.doc[stg].map[m]
                                   ELSE moduleStates[m]]]]]

\* saveDeploymentState(moduleStates): reads the whole document (an absent file
\* is {}), replaces the entry of this.stage and writes the document back.  A
\* read, parse or write error is caught: the file is left as it is.
saveDeploymentState(file, stg, moduleStates, writeOk) ==
    IF file.status \in {"corrupt", "unreadable"} \/ ~writeOk
    THEN file
    ELSE [status |-> "ok",
          doc |-> [file.doc EXCEPT ![stg] = [has |-> TRUE, map |-> moduleStates]]]

SaveWrites(file, writeOk) == file.status \notin {"corrupt", "unreadable"} /\ writeOk

\* getCurrentGitCommit(): `git rev-parse HEAD`, null when the command fails.
getCurrentGitCommit == IF gitOk THEN Len(commits) ELSE NullCommit

\* calculateModuleHash(path).hash
calculateModuleHash(m, now) ==
    IF m \in unreadable THEN TimeHash(now) ELSE ShaHash(files[m])

\* Mutant of hasGitChanges: when the changes cannot be determined the module
\* counts as unchanged.
hasGitChangesFailClosed(m, lastCommit) ==
    IF lastCommit = NullCommit THEN FALSE
    ELSE IF ~gitOk THEN FALSE
    ELSE IF lastCommit \notin DOMAIN commits THEN FALSE
    ELSE commits[lastCommit][m] # commits[Len(commits)][m]

\* hasGitChanges(path, lastCommit): `git diff --name-only lastCommit HEAD -- path`
\* lists a file; true when there is no last commit, when
\* `git rev-parse --show-toplevel` fails and when the diff fails (lastCommit
\* is no commit of this repository).
hasGitChanges(m, lastCommit) ==
    IF lastCommit = NullCommit THEN TRUE
    ELSE IF ~gitOk THEN TRUE
    ELSE IF lastCommit \notin DOMAIN commits THEN TRUE
    ELSE commits[lastCommit][m] # commits[Len(commits)][m]

\* Mutant of needsDeployment: the hash is compared for every stage.
needsDeploymentHashOnly(m, prevState, stg, now) ==
    LET previousModuleState == prevState[m]
    IN  IF ~previousModuleState.present
        THEN [needsDeployment |-> TRUE, reason |-> "first-deployment"]
        ELSE IF calculateModuleHash(m, now) # previousModuleState.fileHash
             THEN [needsDeployment |-> TRUE, reason |-> "file-changes"]
             ELSE [needsDeployment |-> FALSE, reason |-> "no-changes"]

\* Mutant of needsDeployment: every stage deploys when Git is not available.
needsDeploymentGitAll(m, prevState, stg, now) ==
    LET previousModuleState == prevState[m]
        currentCommit == getCurrentGitCommit
        lastDeployedCommit == previousModuleState.gitCommit
    IN  IF ~previousModuleState.present
        THEN [needsDeployment |-> TRUE, reason |-> "first-deployment"]
        ELSE IF currentCommit = NullCommit
        THEN [needsDeployment |-> TRUE, reason |-> "no-git"]
        ELSE IF stg = "prod"
        THEN IF currentCommit # lastDeployedCommit
             THEN IF hasGitChanges(m, lastDeployedCommit)
                  THEN [needsDeployment |-> TRUE, reason |-> "git-changes"]
                  ELSE [needsDeployment |-> FALSE, reason |-> "no-git-changes"]
             ELSE [needsDeployment |-> FALSE, reason |-> "same-commit"]
        ELSE IF calculateModuleHash(m, now) # previousModuleState.fileHash
             THEN [needsDeployment |-> TRUE, reason |-> "file-changes"]
             ELSE [needsDeployment |-> FALSE, reason |-> "no-changes"]

\* Mutant of needsDeployment: the Git check comes before the test for a
\* previous record.
needsDeploymentGitFirst(m, prevState, stg, now) ==
    LET previousModuleState == prevState[m]
        currentCommit == getCurrentGitCommit
        lastDeployedCommit == previousModuleState.gitCommit
    IN  IF stg = "prod" /\ currentCommit = NullCommit
        THEN [needsDeployment |-> TRUE, reason |-> "no-git"]
        ELSE IF ~previousModuleState.present
        THEN [needsDeployment |-> TRUE, reason |-> "first-deployment"]
        ELSE IF stg = "prod"
        THEN IF currentCommit # lastDeployedCommit
             THEN IF hasGitChanges(m, lastDeployedCommit)
                  THEN [needsDeployment |-> TRUE, reason |-> "git-changes"]
                  ELSE [needsDeployment |-> FALSE, reason |-> "no-git-changes"]
             ELSE [needsDeployment |-> FALSE, reason |-> "same-commit"]
        ELSE IF calculateModuleHash(m, now) # previousModuleState.fileHash
             THEN [needsDeployment |-> TRUE, reason |-> "file-changes"]
             ELSE [needsDeployment |-> FALSE, reason |-> "no-changes"]

\* needsDeployment(module, previousState)
needsDeployment(m, prevState, stg, now) ==
    LET previousModuleState == prevState[m]
        currentCommit == getCurrentGitCommit
        lastDeployedCommit == previousModuleState.gitCommit
    IN  IF ~previousModuleState.present
        THEN [needsDeployment |-> TRUE, reason |-> "first-deployment"]
        ELSE IF stg = "prod"
        THEN IF currentCommit = NullCommit
             THEN [needsDeployment |-> TRUE, reason |-> "no-git"]
             ELSE IF currentCommit # lastDeployedCommit
             THEN IF hasGitChanges(m, lastDeployedCommit)
                  THEN [needsDeployment |-> TRUE, reason |-> "git-changes"]
                  ELSE [needsDeployment |-> FALSE, reason |-> "no-git-changes"]
             ELSE [needsDeployment |-> FALSE, reason |-> "same-commit"]
        ELSE IF calculateModuleHash(m, now) # previousModuleState.fileHash
             THEN [needsDeployment |-> TRUE, reason |-> "file-changes"]
             ELSE [needsDeployment |-> FALSE, reason |-> "no-changes"]

\* Mutant of Selected: the force flag is ignored.
SelectedUnforced(m, prevState, stg, force, now) ==
    needsDeployment(m, prevState, stg, now).needsDeployment

\* The selection loop of deployAllModules: a module is pushed when forceAll is
\* set, otherwise when needsDeployment says so.
Selected(m, prevState, stg, force, now) ==
    IF force THEN TRUE ELSE needsDeployment(m, prevState, stg, now).needsDeployment

RECURSIVE SelectModules(_, _, _, _, _)
SelectModules(mods, prevState, stg, force, now) ==
    IF mods = << >> THEN << >>
    ELSE LET rest == SelectModules(Tail(mods), prevState, stg, force, now)
         IN  IF Selected(Head(mods), prevState, stg, force, now)
             THEN <<Head(mods)>> \o rest
             ELSE rest

\* Mutant of ApplyResult: a failed result erases the record of its module.
ApplyResultErase(newState, r) ==
    [newState EXCEPT ![r.module] =
        IF r.success
        THEN [present |-> TRUE, deployedAt |-> r.deployedAt,
              gitCommit |-> r.gitCommit, fileHash |-> r.fileHash,
              stage |-> r.stage]
        ELSE [present |-> FALSE, deployedAt |-> 0, gitCommit |-> 0,
              fileHash |-> [kind |-> "none", v |-> 0], stage |-> "none"]]

\* Mutant of ApplyResult: a record is written for a failed result too.
ApplyResultAlways(newState, r) ==
    [newState EXCEPT ![r.module] =
        [present |-> TRUE, deployedAt |-> r.deployedAt,
         gitCommit |-> r.gitCommit, fileHash |-> r.fileHash,
         stage |-> r.stage]]

\* One iteration of the loop of buildNewState: a successful result overwrites
\* the record of its module, a failed one leaves newState as it is.
ApplyResult(newState, r) ==
    IF r.success
    THEN [newState EXCEPT ![r.module] =
             [present |-> TRUE, deployedAt |-> r.deployedAt,
              gitCommit |-> r.gitCommit, fileHash |-> r.fileHash,
              stage |-> r.stage]]
    ELSE newState

\* Mutant of buildNewState: the new state starts empty, not as a copy of
\* previousState.
RECURSIVE ApplyResultsTo(_, _)
ApplyResultsTo(newState, results) ==
    IF results = << >> THEN newState
    ELSE ApplyResultsTo(ApplyResult(newState, Head(results)), Tail(results))

buildNewStateFromEmpty(prevState, results) == ApplyResultsTo(EmptyMap, results)

\* buildNewState(previousState): a copy of previousState to which every
\* result of this.deploymentResults is applied in order.
RECURSIVE buildNewState(_, _)
buildNewState(prevState, results) ==
    IF results = << >> THEN prevState
    ELSE buildNewState(ApplyResult(prevState, Head(results)), Tail(results))

\* displayDeploymentSummary(): returns failed.length === 0
AllSuccessful(results) == \A k \in 1..Len(results) : results[k].success

\* Mutant of deployAllModulesReturn: a state that could not be saved makes
\* deployAllModules return false.
deployAllModulesReturnIfWritten(written) == written

\* What deployAllModules returns after the batch loop: saveDeploymentState
\* catches its own errors, so `return true` is reached whether or not the
\* state was written.
deployAllModulesReturn(written) == TRUE

\* Mutant of SummaryDisplayed: main exits without the summary.
SummaryDisplayedNever(deploymentStarted) == FALSE

\* main() calls displayDeploymentSummary iff deployAllModules returned true;
\* otherwise it has exited with 2 before.
SummaryDisplayed(deploymentStarted) == deploymentStarted

\* The two lists displayDeploymentSummary prints.
SucceededResult(r) == r.success
FailedResult(r) == ~r.success
displayDeploymentSummary(results) ==
    [successful |-> SelectSeq(results, SucceededResult),
     failed |-> SelectSeq(results, FailedResult)]

\* The code main() exits with, given what deployAllModules and
\* displayDeploymentSummary returned.
MainExitCode(deploymentStarted, allSuccessful) ==
    IF ~deploymentStarted THEN 2
    ELSE IF allSuccessful THEN 0
    ELSE 1

\* Mutant of validateDeploymentEnvironment: a profile is accepted before the
\* two keys are looked at.
validateDeploymentEnvironmentProfileFirst(stg, e) ==
    LET isDevelopmentEnvironment == stg = "dev" \/ stg = "uat"
        hasDirectCredentials == e.accessKey /\ e.secretKey
    IN  IF ~(hasDirectCredentials \/ (e.profile /\ isDevelopmentEnvironment))
        THEN "credentials"
        ELSE IF ~e.region THEN "region"
        ELSE IF ~e.slsKey THEN "serverless-key"
        ELSE IF stg \notin ValidStages THEN "stage"
        ELSE IF ~e.slsInstalled THEN "serverless-cli"
        ELSE "ok"

\* Mutant of validateDeploymentEnvironment: the region is checked first, and
\* a tool older than version 4 is refused.
validateDeploymentEnvironmentRegionFirst(stg, e) ==
    LET isDevelopmentEnvironment == stg = "dev" \/ stg = "uat"
        hasDirectCredentials == e.accessKey /\ e.secretKey
    IN  IF ~e.region THEN "region"
        ELSE IF e.accessKey /\ ~e.secretKey THEN "credentials"
        ELSE IF e.secretKey /\ ~e.accessKey THEN "credentials"
        ELSE IF ~(hasDirectCredentials \/ (e.profile /\ isDevelopmentEnvironment))
        THEN "credentials"
        ELSE IF ~e.slsKey THEN "serverless-key"
        ELSE IF stg \notin ValidStages THEN "stage"
        ELSE IF ~e.slsInstalled THEN "serverless-cli"
        ELSE IF ~e.slsMajor4 THEN "serverless-cli"
        ELSE "ok"

\* validateDeploymentEnvironment(): the first unmet prerequisite, "ok" if none.
validateDeploymentEnvironment(stg, e) ==
    LET isDevelopmentEnvironment == stg = "dev" \/ stg = "uat"
        hasDirectCredentials == e.accessKey /\ e.secretKey
    IN  IF e.accessKey /\ ~e.secretKey THEN "credentials"
        ELSE IF e.secretKey /\ ~e.accessKey THEN "credentials"
        ELSE IF ~(hasDirectCredentials \/ (e.profile /\ isDevelopmentEnvironment))
        THEN "credentials"
        ELSE IF ~e.region THEN "region"
        ELSE IF ~e.slsKey THEN "serverless-key"
        ELSE IF stg \notin ValidStages THEN "stage"
        ELSE IF ~e.slsInstalled THEN "serverless-cli"
        ELSE "ok"

\* The commands validateDeploymentEnvironment runs, in order: none when a
\* check before them returns false.
ValidationCommands(stg, e) ==
    LET isDevelopmentEnvironment == stg = "dev" \/ stg = "uat"
        hasDirectCredentials == e.accessKey /\ e.secretKey
    IN  IF e.accessKey /\ ~e.secretKey THEN << >>
        ELSE IF e.secretKey /\ ~e.accessKey THEN << >>
        ELSE IF ~(hasDirectCredentials \/ (e.profile /\ isDevelopmentEnvironment))
        THEN << >>
        ELSE IF ~e.region THEN << >>
        ELSE IF ~e.slsKey THEN << >>
        ELSE IF stg \notin ValidStages THEN << >>
        ELSE IF ~e.slsInstalled THEN <<"serverless --version">>
        ELSE <<"serverless --version", "serverless login">>

\* The warnings validateDeploymentEnvironment logs about the deploy tool: a
\* major version below 4 and a failed `serverless login`.
ValidationWarnings(stg, e) ==
    IF ValidationCommands(stg, e) # <<"serverless --version", "serverless login">>
    THEN {}
    ELSE (IF e.slsMajor4 THEN {} ELSE {"old-version"})
         \cup (IF e.loginOk THEN {} ELSE {"login-failed"})

\* process.env as the validator reads it, and what the two serverless
\* commands do: slsInstalled (`serverless --version` succeeds), slsMajor4 (it
\* reports a major version of 4 or more), loginOk (`serverless login`
\* succeeds).
ProcessEnvs ==
    [accessKey : BOOLEAN, secretKey : BOOLEAN, profile : BOOLEAN,
     region : BOOLEAN, slsKey : BOOLEAN, slsInstalled : BOOLEAN,
     slsMajor4 : BOOLEAN, loginOk : BOOLEAN]

\* A process environment that passes validateDeploymentEnvironment.
GoodEnv ==
    [accessKey |-> TRUE, secretKey |-> TRUE, profile |-> FALSE, region |-> TRUE,
     slsKey |-> TRUE, slsInstalled |-> TRUE, slsMajor4 |-> TRUE, loginOk |-> TRUE]

\* --concurrency=TEXT as given on the command line: absent, or a text from
\* which parseInt gets NaN (no leading digits: nan), or a text from which it
\* gets the number `value` of the leading digits; junk tells whether
\* characters that make the text no number follow the digits ("2abc").
ConcArgs ==
    {[given |-> FALSE, nan |-> FALSE, value |-> 0, junk |-> FALSE],
     [given |-> TRUE, nan |-> TRUE, value |-> 0, junk |-> TRUE]}
    \cup {[given |-> TRUE, nan |-> FALSE, value |-> v, junk |-> j] :
              v \in 0..MaxConcArg, j \in BOOLEAN}

NoConcArg == [given |-> FALSE, nan |-> FALSE, value |-> 0, junk |-> FALSE]

\* Nothing is known of the last invocation: the script has not been invoked
\* or it ended before it read its arguments.
NoInvocation == [concArg |-> NoConcArg, validated |-> FALSE, env |-> GoodEnv]

ConcurrencyValid(c) ==
    ~c.given \/ (~c.nan /\ c.value >= MinConcurrency /\ c.value <= MaxConcurrency)

ParseConcurrency(c) == IF c.given THEN c.value ELSE DefaultConcurrency

\* modulesToDeploy.slice(from, to)
Slice(seq, from, to) == SubSeq(seq, from + 1, Min(to, Len(seq)))

\* Mutant of DeployResult: the commit and the hash are not recorded.
DeployResultBare(m, stg, result, now) ==
    IF result = "success"
    THEN [module |-> m, success |-> TRUE, stage |-> stg, deployedAt |-> now,
          gitCommit |-> NullCommit, fileHash |-> NoHash]
    ELSE [module |-> m, success |-> FALSE, stage |-> stg, deployedAt |-> 0,
          gitCommit |-> NullCommit, fileHash |-> NoHash]

\* The object deployModule pushes to this.deploymentResults and returns.
\* result is what executeCommand did: "success", "failure" (success false)
\* or "throws".
DeployResult(m, stg, result, now) ==
    IF result = "success"
    THEN [module |-> m, success |-> TRUE, stage |-> stg, deployedAt |-> now,
          gitCommit |-> getCurrentGitCommit, fileHash |-> calculateModuleHash(m, now)]
    ELSE [module |-> m, success |-> FALSE, stage |-> stg, deployedAt |-> 0,
          gitCommit |-> NullCommit, fileHash |-> NoHash]

\* Mutant of PushResult: only successful results are kept.
PushResultIfOk(results, r) == IF r.success THEN Append(results, r) ELSE results

\* this.deploymentResults.push(deployResult)
PushResult(results, r) == Append(results, r)

CommandResults == {"success", "failure", "throws"}

\* The other process has not run the script.
NoPeer ==
    [pc |-> "idle", stage |-> DefaultStage, forceAll |-> FALSE,
     previousState |-> EmptyMap, modulesToDeploy |-> << >>,
     deploymentResults |-> << >>, saved |-> FALSE,
     mainAtStart |-> "none", mainAtSave |-> "none"]

\* --------------------------------------------------------------------- Init
Workspace(n) == [k \in 1..n |-> k]

Init ==
    /\ ToolsIdle
    /\ workspace = Workspace(NumModules)
    /\ files = [m \in Modules |-> 0]
    /\ unreadable = {}
    /\ commits = << [m \in Modules |-> 0] >>
    /\ gitOk \in BOOLEAN
    /\ envChanges = 0
    /\ peer = NoPeer
    /\ stateFile \in {AbsentFile, CorruptFile}
    /\ pc = "idle"
    /\ stage = DefaultStage
    /\ concurrency = DefaultConcurrency
    /\ forceAll = FALSE
    /\ previousState = EmptyMap
    /\ modulesToDeploy = << >>
    /\ i = 0
    /\ cmd = << >>
    /\ deploymentResults = << >>
    /\ delays = 0
    /\ saved = FALSE
    /\ summary = FALSE
    /\ outcome = "none"
    /\ batch = << >>
    /\ exitCode = -1
    /\ runs = 0
    /\ fileAtStart = stateFile
    /\ lastAttempt = [s \in ValidStages |-> [m \in Modules |-> "none"]]
    /\ everOk = [s \in ValidStages |-> [m \in Modules |-> FALSE]]
    /\ batches = << >>
    /\ doneOk = [stage |-> "none", ok |-> FALSE]
    /\ prevOk = FALSE
    /\ quiet = TRUE
    /\ invocation = NoInvocation

\* -------------------------------------------------------------- environment
\* Other processes change the environment between runs and while the script
\* is blocked in an external command.
EnvMayChange ==
    /\ envChanges < MaxEnvChanges
    /\ \/ pc = "idle"
       \/ \E j \in DOMAIN cmd : cmd[j] = "running"

OtherVersion(v) == (v + 1) % (MaxVersion + 1)

\* Another process edits a file of module m and leaves it uncommitted.
EditFiles(m) ==
    /\ EnvMayChange
    /\ files' = [files EXCEPT ![m] = OtherVersion(@)]
    /\ envChanges' = envChanges + 1
    /\ quiet' = FALSE
    /\ UNCHANGED <<toolVars, workspace, unreadable, commits, gitOk, stateFile, peer, runVars,
                   fileAtStart, lastAttempt, everOk, batches, doneOk, prevOk,
                   invocation>>

\* A commit is made that changes the modules in S (none: a commit that
\* touches no module); HEAD moves to it.
Commit(S) ==
    /\ EnvMayChange
    /\ Len(commits) < MaxCommits
    /\ files' = [m \in Modules |-> IF m \in S THEN OtherVersion(files[m]) ELSE files[m]]
    /\ commits' = Append(commits, files')
    /\ envChanges' = envChanges + 1
    /\ quiet' = FALSE
    /\ UNCHANGED <<toolVars, workspace, unreadable, gitOk, stateFile, peer, runVars,
                   fileAtStart, lastAttempt, everOk, batches, doneOk, prevOk,
                   invocation>>

\* Git becomes unavailable (not installed, not a repository) or available.
ToggleGit ==
    /\ EnvMayChange
    /\ gitOk' = ~gitOk
    /\ envChanges' = envChanges + 1
    /\ quiet' = FALSE
    /\ UNCHANGED <<toolVars, workspace, files, unreadable, commits, stateFile, peer, runVars,
                   fileAtStart, lastAttempt, everOk, batches, doneOk, prevOk,
                   invocation>>

\* A file of module m loses or regains its read permission.
ToggleReadable(m) ==
    /\ EnvMayChange
    /\ unreadable' = IF m \in unreadable THEN unreadable \ {m} ELSE unreadable \cup {m}
    /\ envChanges' = envChanges + 1
    /\ quiet' = FALSE
    /\ UNCHANGED <<toolVars, workspace, files, commits, gitOk, stateFile, peer, runVars,
                   fileAtStart, lastAttempt, everOk, batches, doneOk, prevOk,
                   invocation>>

\* ---------------------------------------------------------------- the script
\* An invocation that ends before deployAllModules selects modules.
Rejected(how, code, stg) ==
    /\ pc' = "idle"
    /\ outcome' = how
    /\ exitCode' = code
    /\ stage' = stg
    /\ concurrency' = DefaultConcurrency
    /\ forceAll' = FALSE
    /\ previousState' = EmptyMap
    /\ modulesToDeploy' = << >>
    /\ i' = 0
    /\ cmd' = << >>
    /\ deploymentResults' = << >>
    /\ delays' = 0
    /\ saved' = FALSE
    /\ summary' = FALSE
    /\ batch' = << >>
    /\ batches' = << >>
    /\ prevOk' = FALSE
    /\ fileAtStart' = stateFile
    /\ UNCHANGED <<toolVars, envVars, stateFile, runs, lastAttempt, everOk, doneOk, quiet>>

\* main() with --help or -h: prints the usage and exits 0.
MainHelp ==
    /\ pc = "idle"
    /\ Rejected("help", 0, DefaultStage)

\* main() with a --concurrency that is not a number in 1..3: exits 2.
MainBadConcurrency(concArg) ==
    /\ pc = "idle"
    /\ ~ConcurrencyValid(concArg)
    /\ Rejected("bad-concurrency", 2, DefaultStage)

\* main() when validateDeploymentEnvironment returns false: exits 2.
MainInvalid(stageArg, penv) ==
    /\ pc = "idle"
    /\ validateDeploymentEnvironment(stageArg, penv) # "ok"
    /\ Rejected("invalid", 2, stageArg)

\* main() when discoverModules finds nothing: deployAllModules returns false,
\* main exits 2.
MainNoModules(stageArg, penv) ==
    /\ pc = "idle"
    /\ validateDeploymentEnvironment(stageArg, penv) = "ok"
    /\ discoverModules(FALSE) = << >>
    /\ Rejected("no-modules", MainExitCode(FALSE, TRUE), stageArg)

\* main() up to the first suspension of deployAllModules: validation passes,
\* modules are discovered, the state is loaded and the modules are selected.
\* With nothing selected deployAllModules returns true at once and main
\* prints the summary and exits 0.
MainRun(stageArg, concArg, forceArg, penv) ==
    /\ pc = "idle"
    /\ ConcurrencyValid(concArg)
    /\ validateDeploymentEnvironment(stageArg, penv) = "ok"
    /\ LET now == runs + 1
           loaded == loadDeploymentState(stateFile, stageArg)
           toDeploy == SelectModules(discoverModules(TRUE), loaded,
                                     stageArg, forceArg, now)
       IN  /\ runs' = now
           /\ stage' = stageArg
           /\ concurrency' = ParseConcurrency(concArg)
           /\ forceAll' = forceArg
           /\ fileAtStart' = stateFile
           /\ previousState' = loaded
           /\ modulesToDeploy' = toDeploy
           /\ deploymentResults' = << >>
           /\ delays' = 0
           /\ saved' = FALSE
           /\ i' = 0
           /\ cmd' = [j \in 1..Len(toDeploy) |-> "idle"]
           /\ prevOk' = (doneOk.ok /\ doneOk.stage = stageArg /\ quiet)
           /\ quiet' = TRUE
           /\ IF toDeploy = << >>
              THEN /\ pc' = "idle"
                   /\ outcome' = "up-to-date"
                   /\ summary' = SummaryDisplayed(TRUE)
                   /\ exitCode' = MainExitCode(TRUE, AllSuccessful(<< >>))
                   /\ batch' = << >>
                   /\ batches' = << >>
                   /\ doneOk' = [stage |-> stageArg, ok |-> FALSE]
              ELSE /\ pc' = "batch"
                   /\ outcome' = "running"
                   /\ summary' = FALSE
                   /\ exitCode' = -1
                   /\ batch' = Slice(toDeploy, 0, ParseConcurrency(concArg))
                   /\ batches' = <<batch'>>
                   /\ UNCHANGED doneOk
           /\ UNCHANGED <<toolVars, envVars, stateFile, lastAttempt, everOk>>

\* Positions (1 based) in modulesToDeploy of the members of the current batch.
BatchIndices == (i + 1)..(i + Len(batch))

\* Mutant of CanStart: every selected module is started at once, whatever
\* its batch.
CanStartAny(j) == j \in DOMAIN cmd /\ cmd[j] = "idle"

\* batch.map(module => this.deployModule(module)) calls deployModule for the
\* members in order, and each call blocks in executeCommand until its
\* command has ended: member j starts when every member before it has
\* settled.
CanStart(j) ==
    /\ j \in BatchIndices
    /\ cmd[j] = "idle"
    /\ \A k \in 1..(j - 1) : cmd[k] = "settled"

\* deployModule(module) calls executeCommand(`serverless deploy ...`).
StartCommand(j) ==
    /\ pc = "batch"
    /\ CanStart(j)
    /\ cmd' = [cmd EXCEPT ![j] = "running"]
    /\ UNCHANGED <<toolVars, envVars, stateFile, pc, stage, concurrency, forceAll,
                   previousState, modulesToDeploy, i, deploymentResults, delays,
                   saved, summary, outcome, batch, exitCode, runs, histVars>>

\* executeCommand returns or throws; deployModule builds the result, pushes
\* it to this.deploymentResults and returns it.
FinishCommand(j, result) ==
    /\ pc = "batch"
    /\ j \in DOMAIN cmd
    /\ cmd[j] = "running"
    /\ LET m == modulesToDeploy[j]
           r == DeployResult(m, stage, result, runs)
       IN  /\ deploymentResults' = PushResult(deploymentResults, r)
           /\ lastAttempt' = [lastAttempt EXCEPT ![stage][m] =
                                  IF r.success THEN "ok" ELSE "fail"]
           /\ everOk' = [everOk EXCEPT ![stage][m] = @ \/ r.success]
    /\ cmd' = [cmd EXCEPT ![j] = "settled"]
    /\ UNCHANGED <<toolVars, envVars, stateFile, pc, stage, concurrency, forceAll,
                   previousState, modulesToDeploy, i, delays, saved, summary,
                   outcome, batch, exitCode, runs, fileAtStart, batches, doneOk,
                   prevOk, quiet, invocation>>

\* Mutant of BatchSettled: the join waits for the first member only.
BatchSettledFirst == cmd[i + 1] = "settled"

\* await Promise.all(batchPromises) resumes when every member has settled.
BatchSettled == \A j \in BatchIndices : cmd[j] = "settled"

\* Mutant of MoreBatches: <= for <.
MoreBatchesLe == i + concurrency <= Len(modulesToDeploy)

\* The test `i + concurrency < modulesToDeploy.length` after a batch.
MoreBatches == i + concurrency < Len(modulesToDeploy)

\* After a batch that is not the last: the 3 second timer is set.
JoinBatch ==
    /\ pc = "batch"
    /\ BatchSettled
    /\ MoreBatches
    /\ pc' = "delay"
    /\ delays' = delays + 1
    /\ UNCHANGED <<toolVars, envVars, stateFile, stage, concurrency, forceAll,
                   previousState, modulesToDeploy, i, cmd, deploymentResults,
                   saved, summary, outcome, batch, exitCode, runs, histVars>>

\* The timer fires: i += concurrency and the next batch is sliced.
DelayDone ==
    /\ pc = "delay"
    /\ pc' = "batch"
    /\ i' = i + concurrency
    /\ batch' = Slice(modulesToDeploy, i + concurrency, i + concurrency + concurrency)
    /\ batches' = Append(batches, batch')
    /\ UNCHANGED <<toolVars, envVars, stateFile, stage, concurrency, forceAll,
                   previousState, modulesToDeploy, cmd, deploymentResults, delays,
                   saved, summary, outcome, exitCode, runs, fileAtStart,
                   lastAttempt, everOk, doneOk, prevOk, quiet, invocation>>

\* After the last batch: the loop ends, the state is saved,
\* deployAllModules returns true, main prints the summary and exits.
FinishRun(writeOk) ==
    /\ pc = "batch"
    /\ BatchSettled
    /\ ~MoreBatches
    /\ stateFile' = saveDeploymentState(stateFile, stage,
                        buildNewState(previousState, deploymentResults), writeOk)
    /\ saved' = SaveWrites(stateFile, writeOk)
    /\ LET deploymentStarted == deployAllModulesReturn(SaveWrites(stateFile, writeOk))
       IN  /\ summary' = SummaryDisplayed(deploymentStarted)
           /\ exitCode' = MainExitCode(deploymentStarted,
                                       AllSuccessful(deploymentResults))
    /\ outcome' = "deployed"
    /\ pc' = "idle"
    /\ doneOk' = [stage |-> stage,
                  ok |-> AllSuccessful(deploymentResults) /\ saved']
    /\ UNCHANGED <<toolVars, envVars, stage, concurrency, forceAll, previousState,
                   modulesToDeploy, i, cmd, deploymentResults, delays, batch,
                   runs, fileAtStart, lastAttempt, everOk, batches, prevOk, quiet,
                   invocation>>

\* An exception escapes deployAllModules (a rejected promise of the batch, an
\* error thrown between two batches): main() catches it, logs it and exits 2.
\* Nothing is saved and no summary is printed.
MainFatal ==
    /\ pc \in {"batch", "delay"}
    /\ pc' = "idle"
    /\ outcome' = "fatal"
    /\ exitCode' = 2
    /\ UNCHANGED <<toolVars, envVars, stateFile, stage, concurrency, forceAll, previousState,
                   modulesToDeploy, i, cmd, deploymentResults, delays, saved,
                   summary, batch, runs, histVars>>

\* ------------------------------------------------- a run in another process
\* The clock of the other process: its deploys carry a time that no deploy of
\* this process carries.
PeerClock == MaxRuns + 1

\* Where this process is: before its run, in it (loaded, not yet saved), or
\* after it.
MainPhase ==
    IF outcome = "none" THEN "before"
    ELSE IF pc # "idle" THEN "during"
    ELSE "after"

\* The other process runs deployAllModules up to the batch loop: it loads the
\* state and selects the modules.  With nothing selected it returns at once,
\* without saving.
PeerStart(stageArg, forceArg) ==
    /\ peer.pc = "idle"
    /\ LET loaded == loadDeploymentState(stateFile, stageArg)
           toDeploy == SelectModules(discoverModules(TRUE), loaded, stageArg,
                                     forceArg, PeerClock)
       IN  peer' = [pc |-> IF toDeploy = << >> THEN "done" ELSE "deploying",
                    stage |-> stageArg, forceAll |-> forceArg,
                    previousState |-> loaded, modulesToDeploy |-> toDeploy,
                    deploymentResults |-> << >>, saved |-> FALSE,
                    mainAtStart |-> MainPhase, mainAtSave |-> "none"]
    /\ UNCHANGED <<toolVars, workspace, files, unreadable, commits, gitOk, envChanges,
                   stateFile, runVars, histVars>>

\* The other process deploys the next module of its list.
PeerDeploy(result) ==
    /\ peer.pc = "deploying"
    /\ Len(peer.deploymentResults) < Len(peer.modulesToDeploy)
    /\ LET m == peer.modulesToDeploy[Len(peer.deploymentResults) + 1]
           r == DeployResult(m, peer.stage, result, PeerClock)
       IN  /\ peer' = [peer EXCEPT !.deploymentResults = PushResult(@, r)]
           /\ lastAttempt' = [lastAttempt EXCEPT ![peer.stage][m] =
                                  IF r.success THEN "ok" ELSE "fail"]
           /\ everOk' = [everOk EXCEPT ![peer.stage][m] = @ \/ r.success]
    /\ UNCHANGED <<toolVars, workspace, files, unreadable, commits, gitOk, envChanges,
                   stateFile, runVars, fileAtStart, batches, doneOk, prevOk, quiet,
                   invocation>>

\* The other process has deployed its last batch and saves.
PeerSave(writeOk) ==
    /\ peer.pc = "deploying"
    /\ Len(peer.deploymentResults) = Len(peer.modulesToDeploy)
    /\ stateFile' = saveDeploymentState(stateFile, peer.stage,
                        buildNewState(peer.previousState, peer.deploymentResults),
                        writeOk)
    /\ peer' = [peer EXCEPT !.pc = "done",
                            !.saved = SaveWrites(stateFile, writeOk),
                            !.mainAtSave = MainPhase]
    /\ UNCHANGED <<toolVars, workspace, files, unreadable, commits, gitOk, envChanges,
                   runVars, histVars>>

PeerStep ==
    \/ \E stageArg \in ValidStages, forceArg \in BOOLEAN : PeerStart(stageArg, forceArg)
    \/ \E result \in CommandResults : PeerDeploy(result)
    \/ \E writeOk \in BOOLEAN : PeerSave(writeOk)

EnvStep ==
    \/ \E m \in Modules : EditFiles(m)
    \/ \E S \in {{}} \cup {{m} : m \in Modules} : Commit(S)
    \/ ToggleGit
    \/ \E m \in Modules : ToggleReadable(m)

RunStep ==
    \/ \E j \in DOMAIN cmd : StartCommand(j)
    \/ \E j \in DOMAIN cmd, result \in CommandResults : FinishCommand(j, result)
    \/ JoinBatch
    \/ DelayDone
    \/ \E writeOk \in BOOLEAN : FinishRun(writeOk)

MainStep ==
    \E stageArg \in StageArgs, concArg \in ConcArgs, forceArg \in BOOLEAN,
       penv \in {GoodEnv} :
        /\ runs < MaxRuns
        /\ MainRun(stageArg, concArg, forceArg, penv)
        /\ UNCHANGED invocation

Next == EnvStep \/ RunStep \/ MainStep

\* Runs of the script, one after the other, in a changing environment.
Spec == Init /\ [][Next]_vars

\* One invocation of the script, also one that ends before any module is
\* selected, in an environment that does not change.
CliInit ==
    /\ ToolsIdle
    /\ workspace = Workspace(NumModules)
    /\ files = [m \in Modules |-> 0]
    /\ unreadable = {}
    /\ commits = << [m \in Modules |-> 0] >>
    /\ gitOk = TRUE
    /\ envChanges = 0
    /\ peer = NoPeer
    /\ stateFile \in {AbsentFile, CorruptFile, UnreadableFile, SeededFile}
    /\ pc = "idle"
    /\ stage = DefaultStage
    /\ concurrency = DefaultConcurrency
    /\ forceAll = FALSE
    /\ previousState = EmptyMap
    /\ modulesToDeploy = << >>
    /\ i = 0
    /\ cmd = << >>
    /\ deploymentResults = << >>
    /\ delays = 0
    /\ saved = FALSE
    /\ summary = FALSE
    /\ outcome = "none"
    /\ batch = << >>
    /\ exitCode = -1
    /\ runs = 0
    /\ fileAtStart = stateFile
    /\ lastAttempt = [s \in ValidStages |-> [m \in Modules |-> "none"]]
    /\ everOk = [s \in ValidStages |-> [m \in Modules |-> FALSE]]
    /\ batches = << >>
    /\ doneOk = [stage |-> "none", ok |-> FALSE]
    /\ prevOk = FALSE
    /\ quiet = TRUE
    /\ invocation = NoInvocation

CliHelp ==
    /\ outcome = "none"
    /\ MainHelp
    /\ invocation' = NoInvocation

CliBadConcurrency(concArg) ==
    /\ outcome = "none"
    /\ MainBadConcurrency(concArg)
    /\ invocation' = [concArg |-> concArg, validated |-> FALSE, env |-> GoodEnv]

CliInvalid(stageArg, concArg, penv) ==
    /\ outcome = "none"
    /\ ConcurrencyValid(concArg)
    /\ MainInvalid(stageArg, penv)
    /\ invocation' = [concArg |-> concArg, validated |-> TRUE, env |-> penv]

CliNoModules(stageArg, concArg, penv) ==
    /\ outcome = "none"
    /\ ConcurrencyValid(concArg)
    /\ MainNoModules(stageArg, penv)
    /\ invocation' = [concArg |-> concArg, validated |-> TRUE, env |-> penv]

CliRun(stageArg, concArg, forceArg, penv) ==
    /\ outcome = "none"
    /\ MainRun(stageArg, concArg, forceArg, penv)
    /\ invocation' = [concArg |-> concArg, validated |-> TRUE, env |-> penv]

CliStep ==
    \/ CliHelp
    \/ outcome = "none" /\ \E concArg \in ConcArgs : CliBadConcurrency(concArg)
    \/ outcome = "none" /\ \E stageArg \in StageArgs, penv \in ProcessEnvs :
          CliInvalid(stageArg, NoConcArg, penv)
    \/ outcome = "none" /\ \E stageArg \in StageArgs, penv \in ProcessEnvs :
          CliNoModules(stageArg, NoConcArg, penv)
    \/ outcome = "none" /\ \E stageArg \in StageArgs, concArg \in ConcArgs,
                             forceArg \in BOOLEAN, penv \in ProcessEnvs :
          CliRun(stageArg, concArg, forceArg, penv)

CliNext == RunStep \/ CliStep \/ MainFatal

CliSpec == CliInit /\ [][CliNext]_vars

\* Two runs of the script in two processes, on the same state file.
ConcInit ==
    /\ ToolsIdle
    /\ workspace = Workspace(NumModules)
    /\ files = [m \in Modules |-> 0]
    /\ unreadable = {}
    /\ commits = << [m \in Modules |-> 0] >>
    /\ gitOk = TRUE
    /\ envChanges = 0
    /\ peer = NoPeer
    /\ stateFile \in {AbsentFile, SeededFile}
    /\ pc = "idle"
    /\ stage = DefaultStage
    /\ concurrency = DefaultConcurrency
    /\ forceAll = FALSE
    /\ previousState = EmptyMap
    /\ modulesToDeploy = << >>
    /\ i = 0
    /\ cmd = << >>
    /\ deploymentResults = << >>
    /\ delays = 0
    /\ saved = FALSE
    /\ summary = FALSE
    /\ outcome = "none"
    /\ batch = << >>
    /\ exitCode = -1
    /\ runs = 0
    /\ fileAtStart = stateFile
    /\ lastAttempt = [s \in ValidStages |-> [m \in Modules |-> "none"]]
    /\ everOk = [s \in ValidStages |-> [m \in Modules |-> FALSE]]
    /\ batches = << >>
    /\ doneOk = [stage |-> "none", ok |-> FALSE]
    /\ prevOk = FALSE
    /\ quiet = TRUE
    /\ invocation = NoInvocation

ConcMainStep ==
    \E stageArg \in ValidStages, concArg \in {c \in ConcArgs : ConcurrencyValid(c)},
       forceArg \in BOOLEAN :
        /\ runs < 1
        /\ MainRun(stageArg, concArg, forceArg, GoodEnv)
        /\ UNCHANGED invocation

ConcNext == RunStep \/ ConcMainStep \/ PeerStep

ConcSpec == ConcInit /\ [][ConcNext]_vars

\* The decision for one module: the selection loop of one run, started from
\* any working tree, Git history and record of an earlier deployment.  The
\* record may name a commit this repository does not have (it was written
\* from another clone).
Trees == [Modules -> 0..MaxVersion]

Histories == UNION {[1..n -> Trees] : n \in 1..MaxCommits}

Hashes == {ShaHash(v) : v \in 0..MaxVersion} \cup {TimeHash(0)}

EarlierRecords ==
    {[present |-> TRUE, deployedAt |-> 0, gitCommit |-> c, fileHash |-> h,
      stage |-> "any"] : c \in 0..(MaxCommits + 1), h \in Hashes}

\* A document in which every module has record rec in every stage.
DocWith(rec) ==
    [status |-> "ok",
     doc |-> [s \in ValidStages |->
                 [has |-> TRUE,
                  map |-> [m \in RecordKeys |->
                             IF m \in Modules THEN [rec EXCEPT !.stage = s]
                             ELSE NoRecord]]]]

DecideInit ==
    /\ ToolsIdle
    /\ workspace = Workspace(1)
    /\ files \in Trees
    /\ unreadable \in SUBSET Modules
    /\ commits \in Histories
    /\ gitOk \in BOOLEAN
    /\ envChanges = 0
    /\ peer = NoPeer
    /\ stateFile \in {AbsentFile} \cup {DocWith(rec) : rec \in EarlierRecords}
    /\ pc = "idle"
    /\ stage = DefaultStage
    /\ concurrency = DefaultConcurrency
    /\ forceAll = FALSE
    /\ previousState = EmptyMap
    /\ modulesToDeploy = << >>
    /\ i = 0
    /\ cmd = << >>
    /\ deploymentResults = << >>
    /\ delays = 0
    /\ saved = FALSE
    /\ summary = FALSE
    /\ outcome = "none"
    /\ batch = << >>
    /\ exitCode = -1
    /\ runs = 0
    /\ fileAtStart = stateFile
    /\ lastAttempt = [s \in ValidStages |-> [m \in Modules |-> "none"]]
    /\ everOk = [s \in ValidStages |-> [m \in Modules |-> FALSE]]
    /\ batches = << >>
    /\ doneOk = [stage |-> "none", ok |-> FALSE]
    /\ prevOk = FALSE
    /\ quiet = TRUE
    /\ invocation = NoInvocation

DecideStep ==
    \E stageArg \in StageArgs, forceArg \in BOOLEAN :
        /\ runs < 1
        /\ MainRun(stageArg, NoConcArg, forceArg, GoodEnv)
        /\ UNCHANGED invocation

DecideNext == DecideStep \/ ToggleGit \/ Commit({})

DecideSpec == DecideInit /\ [][DecideNext]_vars

\* One run of the script over a workspace of 1..BatchModules modules, in an
\* environment that does not change: the batch executor.
BatchInit ==
    /\ ToolsIdle
    /\ workspace \in {Workspace(n) : n \in 1..BatchModules}
    /\ files = [m \in Modules |-> 0]
    /\ unreadable = {}
    /\ commits = << [m \in Modules |-> 0] >>
    /\ gitOk = TRUE
    /\ envChanges = 0
    /\ peer = NoPeer
    /\ stateFile = AbsentFile
    /\ pc = "idle"
    /\ stage = DefaultStage
    /\ concurrency = DefaultConcurrency
    /\ forceAll = FALSE
    /\ previousState = EmptyMap
    /\ modulesToDeploy = << >>
    /\ i = 0
    /\ cmd = << >>
    /\ deploymentResults = << >>
    /\ delays = 0
    /\ saved = FALSE
    /\ summary = FALSE
    /\ outcome = "none"
    /\ batch = << >>
    /\ exitCode = -1
    /\ runs = 0
    /\ fileAtStart = stateFile
    /\ lastAttempt = [s \in ValidStages |-> [m \in Modules |-> "none"]]
    /\ everOk = [s \in ValidStages |-> [m \in Modules |-> FALSE]]
    /\ batches = << >>
    /\ doneOk = [stage |-> "none", ok |-> FALSE]
    /\ prevOk = FALSE
    /\ quiet = TRUE
    /\ invocation = NoInvocation

BatchMainStep ==
    \E stageArg \in StageArgs, concArg \in ConcArgs, forceArg \in BOOLEAN,
       penv \in {GoodEnv} :
        /\ runs < 1
        /\ MainRun(stageArg, concArg, forceArg, penv)
        /\ UNCHANGED invocation

BatchNext == RunStep \/ BatchMainStep

BatchSpec == BatchInit /\ [][BatchNext]_vars

\* Every external command ends and every timer fires.
FairBatchSpec == BatchSpec /\ WF_vars(RunStep)

TypeOK ==
    /\ pc \in {"idle", "batch", "delay"}
    /\ stage \in StageArgs
    /\ concurrency \in MinConcurrency..MaxConcurrency
    /\ runs \in 0..MaxRuns
    /\ exitCode \in {-1, 0, 1, 2}

\* ------------------------------------------------------------------ claims
SeqRange(seq) == {seq[k] : k \in DOMAIN seq}

\* deployAllModules got as far as selecting modules in the last invocation.
RunSelected == outcome \in {"running", "deployed", "up-to-date"}

\* The last invocation deployed its batches, saved and exited.
RunDone == pc = "idle" /\ outcome = "deployed"

\* The step of buildNewState for result r, as a record.
RecordOf(r) ==
    [present |-> TRUE, deployedAt |-> r.deployedAt, gitCommit |-> r.gitCommit,
     fileHash |-> r.fileHash, stage |-> r.stage]

C1_Witness_Dev ==
    /\ outcome = "up-to-date" /\ prevOk /\ ~forceAll /\ quiet
    /\ stage = "dev"
    /\ \A m \in Modules : previousState[m].present

DocRecord(s, m) == stateFile.doc[s].map[m]
DocHas(s, m) == stateFile.status = "ok" /\ stateFile.doc[s].has /\ DocRecord(s, m).present

\* C2 as stated: between runs, a module has a record in a stage only if its
\* most recent deployment attempt in that stage succeeded.
C2_RecordOnlyIfLastAttemptOk ==
    pc = "idle" =>
        \A s \in ValidStages, m \in Modules : DocHas(s, m) => lastAttempt[s][m] = "ok"

\* C2 amended: in every state, a module has a record in a stage only if some
\* deployment attempt of it in that stage succeeded; the record is that of a
\* successful attempt, and a later failed attempt leaves it in place.
C2_RecordOnlyIfSomeAttemptOk ==
    \A s \in ValidStages, m \in Modules :
        DocHas(s, m) =>
            /\ everOk[s][m]
            /\ DocRecord(s, m).stage = s
            /\ DocRecord(s, m).deployedAt \in 1..runs

C2_Witness ==
    /\ RunDone /\ saved
    /\ \E m \in Modules : DocHas(stage, m) /\ lastAttempt[stage][m] = "fail"
    /\ \E m \in Modules : DocHas(stage, m) /\ lastAttempt[stage][m] = "ok"

\* C3: after a run that deployed and saved, the stage's map holds for every
\* module deployed successfully the record built from its outcome, and for
\* every module whose deploy failed the record (or absence of one) it had in
\* the state loaded at the start.
C3_SavedMap ==
    (RunDone /\ saved) =>
        /\ stateFile.status = "ok" /\ stateFile.doc[stage].has
        /\ \A k \in DOMAIN deploymentResults :
              LET r == deploymentResults[k]
              IN  IF r.success
                  THEN /\ DocRecord(stage, r.module) = RecordOf(r)
                       /\ r.stage = stage /\ r.deployedAt = runs
                  ELSE /\ DocRecord(stage, r.module) = previousState[r.module]
                       /\ DocRecord(stage, r.module)
                            = loadDeploymentState(fileAtStart, stage)[r.module]

C3_Witness ==
    /\ RunDone /\ saved
    /\ \E k \in DOMAIN deploymentResults :
          /\ ~deploymentResults[k].success
          /\ previousState[deploymentResults[k].module].present
    /\ \E k \in DOMAIN deploymentResults :
          /\ deploymentResults[k].success
          /\ previousState[deploymentResults[k].module].present

\* C5: with forceAll every discovered module is selected, in discovery order,
\* whatever the loaded state holds.
C5_ForceSelectsAll ==
    (RunSelected /\ forceAll) => modulesToDeploy = workspace

C5_Witness ==
    /\ RunSelected /\ forceAll /\ quiet
    /\ \E m \in Modules :
          /\ previousState[m].present
          /\ ~needsDeployment(m, previousState, stage, runs).needsDeployment
          /\ m \in SeqRange(modulesToDeploy)

\* C6: for every stage, a module without a record in the loaded state is
\* selected, and the reason is 'first-deployment' whatever Git and the files
\* are like.
C6_FirstDeployment ==
    /\ \A stg \in StageArgs, m \in Modules :
          needsDeployment(m, EmptyMap, stg, runs)
            = [needsDeployment |-> TRUE, reason |-> "first-deployment"]
    /\ RunSelected =>
          \A m \in Modules :
              ~previousState[m].present =>
                  /\ m \in SeqRange(modulesToDeploy)
                  /\ needsDeployment(m, previousState, stage, runs).reason
                        = "first-deployment"

C6_Witness ==
    /\ RunSelected /\ ~forceAll /\ quiet
    /\ stage = "prod" /\ ~gitOk
    /\ \E m \in Modules : ~previousState[m].present /\ m \in SeqRange(modulesToDeploy)
    /\ \E m \in Modules : previousState[m].present

\* C10: a run for one stage leaves the document's entry of every other stage
\* as it was when the run started.
C10_OtherStagesUntouched ==
    \A s \in ValidStages :
        s # stage => stateFile.doc[s] = fileAtStart.doc[s]

C10_Witness ==
    /\ RunDone /\ saved
    /\ \E s \in ValidStages, m \in Modules :
          s # stage /\ DocHas(s, m) /\ stateFile.doc[s] = fileAtStart.doc[s]
    /\ \E m \in Modules : DocHas(stage, m)

\* ------------------------------------------------- claims on the executor
Ceil(n, c) == (n + c - 1) \div c

\* The batch (0 based) that position j of modulesToDeploy belongs to.
BatchOf(j) == (j - 1) \div concurrency

InFlight == {j \in DOMAIN cmd : cmd[j] = "running"}

ResultsFor(m) == {k \in DOMAIN deploymentResults : deploymentResults[k].module = m}

OneOutcomePerModule ==
    /\ Len(deploymentResults) = Len(modulesToDeploy)
    /\ \A j \in DOMAIN modulesToDeploy : Cardinality(ResultsFor(modulesToDeploy[j])) = 1

\* C4: for every concurrency and list of selected modules the run ends, and
\* when it has ended deploymentResults holds exactly one outcome per selected
\* module, whichever deploys failed or threw.
C4_AllAttempted ==
    /\ [](RunDone => OneOutcomePerModule)
    /\ [](\A j \in DOMAIN cmd : cmd[j] = "settled" => ResultsFor(modulesToDeploy[j]) # {})
    /\ (pc # "idle") ~> RunDone

C4_Witness ==
    /\ RunDone
    /\ Len(batches) >= 2
    /\ Len(batches[1]) >= 2
    /\ ~deploymentResults[1].success
    /\ deploymentResults[2].success
    /\ ~deploymentResults[Len(deploymentResults) - 1].success
    /\ deploymentResults[Len(deploymentResults)].success

\* C7: the batches formed are the consecutive slices of size `concurrency` of
\* the selected list (the last one holds what is left), and the pacing delay
\* is performed once between consecutive batches and not after the last:
\* ceil(n/c) batches and ceil(n/c)-1 delays when the run has ended.
C7_BatchesAndDelays ==
    LET n == Len(modulesToDeploy)
        c == concurrency
    IN  /\ pc \in {"batch", "delay"} =>
            /\ Len(batches) \in 1..Ceil(n, c)
            /\ delays = IF pc = "delay" THEN Len(batches) ELSE Len(batches) - 1
        /\ (RunSelected /\ n > 0) =>
            \A b \in DOMAIN batches :
                /\ batches[b] = SubSeq(modulesToDeploy, (b - 1) * c + 1, Min(b * c, n))
                /\ Len(batches[b]) \in 1..c
                /\ b < Ceil(n, c) => Len(batches[b]) = c
        /\ RunDone =>
            /\ Len(batches) = Ceil(n, c)
            /\ delays = Ceil(n, c) - 1

C7_Witness ==
    /\ RunDone
    /\ Len(modulesToDeploy) = 5 /\ concurrency = 2
    /\ batches = <<SubSeq(modulesToDeploy, 1, 2), SubSeq(modulesToDeploy, 3, 4),
                   SubSeq(modulesToDeploy, 5, 5)>>
    /\ delays = 2

\* C8: a deploy action has started only if every deploy action of the
\* batches before its own has settled, and at most `concurrency` deploy
\* actions are in flight.
C8_BatchOrderAndCap ==
    /\ \A j, k \in DOMAIN cmd :
          (cmd[j] # "idle" /\ BatchOf(k) < BatchOf(j)) => cmd[k] = "settled"
    /\ Cardinality(InFlight) <= concurrency

C8_Witness ==
    /\ concurrency = 2
    /\ \E j \in DOMAIN cmd : cmd[j] = "running" /\ BatchOf(j) = 1
    /\ cmd[1] = "settled" /\ cmd[2] = "settled"

\* C9 as stated: in a batch of two or more, the command of a later member is
\* started while the command of an earlier member of the batch is running.
C9_MembersOverlap ==
    [][\A j \in DOMAIN cmd :
          (j \in BatchIndices /\ j > i + 1 /\ cmd[j] = "idle" /\ cmd'[j] = "running")
              => \E k \in BatchIndices : k < j /\ cmd[k] = "running"]_vars

\* ------------------------------------------------ claims on concurrent runs
\* Both processes have run to the end and each has written the document.
BothSaved == RunDone /\ saved /\ peer.pc = "done" /\ peer.saved

\* The two runs overlapped in time: each loaded before the other saved.
Overlapped ==
    \/ peer.mainAtStart = "during"
    \/ peer.mainAtStart = "before" /\ peer.mainAtSave \in {"during", "after"}

\* The save of this process came after the save of the other process.
MainSavedLast == peer.mainAtSave \in {"before", "during"}

\* The records of `earlier` that the save of the later run, which had loaded
\* laterPrev and got laterResults, has dropped.
LostRecords(earlier, laterPrev, laterResults) ==
    {k \in DOMAIN earlier :
        /\ earlier[k].success
        /\ \A j \in DOMAIN laterResults :
              laterResults[j].module = earlier[k].module => ~laterResults[j].success}

\* C11: two runs for the same stage that overlap in time load the same
\* document; when both have saved, the stage's map is exactly the map the
\* later save wrote, and for a module the earlier run deployed and the later
\* run did not, the document holds what the later run had loaded, not the
\* record the earlier run wrote.
C11_LastSaveWins ==
    (BothSaved /\ Overlapped /\ peer.stage = stage) =>
        LET mainMap == buildNewState(previousState, deploymentResults)
            peerMap == buildNewState(peer.previousState, peer.deploymentResults)
            laterPrev == IF MainSavedLast THEN previousState ELSE peer.previousState
            laterResults == IF MainSavedLast THEN deploymentResults
                            ELSE peer.deploymentResults
            earlier == IF MainSavedLast THEN peer.deploymentResults
                       ELSE deploymentResults
        IN  /\ previousState = peer.previousState
            /\ stateFile.status = "ok" /\ stateFile.doc[stage].has
            /\ stateFile.doc[stage].map = (IF MainSavedLast THEN mainMap ELSE peerMap)
            /\ \A k \in LostRecords(earlier, laterPrev, laterResults) :
                  /\ DocRecord(stage, earlier[k].module) = laterPrev[earlier[k].module]
                  /\ DocRecord(stage, earlier[k].module) # RecordOf(earlier[k])

C11_Witness ==
    /\ BothSaved /\ Overlapped /\ peer.stage = stage
    /\ ~MainSavedLast
    /\ LostRecords(deploymentResults, peer.previousState, peer.deploymentResults) # {}
    /\ \E k \in DOMAIN peer.deploymentResults : peer.deploymentResults[k].success

C11_Witness_MainLast ==
    /\ BothSaved /\ Overlapped /\ peer.stage = stage
    /\ MainSavedLast
    /\ LostRecords(peer.deploymentResults, previousState, deploymentResults) # {}
    /\ \E k \in DOMAIN deploymentResults : deploymentResults[k].success

\* ------------------------------------------------- claims on one invocation
\* A step in which the state document is written.
WritesDocument == stateFile' # stateFile \/ (saved' /\ ~saved)

\* C12: while a run is under way the document is what it was when the run
\* started; it is written only in the step that follows the settling of
\* every deploy action of every batch, and that step ends the run, so a run
\* writes at most once; a run aborted by an exception leaves the document as
\* it was when the run started.
C12_SingleLateWrite ==
    /\ [](pc # "idle" => (stateFile = fileAtStart /\ ~saved))
    /\ [](outcome = "fatal" => (stateFile = fileAtStart /\ ~saved))
    /\ [][WritesDocument =>
            /\ pc = "batch" /\ pc' = "idle" /\ outcome' = "deployed"
            /\ \A j \in DOMAIN cmd : cmd[j] = "settled"
            /\ Len(deploymentResults) = Len(modulesToDeploy)]_vars

C12_Witness ==
    /\ outcome = "fatal"
    /\ fileAtStart = SeededFile /\ stateFile = SeededFile
    /\ \E k \in DOMAIN deploymentResults : deploymentResults[k].success
    /\ \E j \in DOMAIN cmd : cmd[j] = "idle"

\* The last invocation ran deployAllModules to its end.
Completed == outcome \in {"deployed", "up-to-date"}

\* The text given as --concurrency is not a number, or is a number outside
\* MinConcurrency..MaxConcurrency.
NotANumberOrOutside(c) ==
    c.given /\ (c.nan \/ c.junk \/ c.value < MinConcurrency \/ c.value > MaxConcurrency)

\* C13 as stated: the script exits 0 iff --help was given or the run completed
\* and no deploy failed (or nothing was to deploy), 1 iff the run completed
\* and a deploy failed, 2 iff validation returned false, no module was found,
\* an exception escaped, or the --concurrency text was not a number or was
\* outside 1..3.
C13_ExitCodes ==
    (pc = "idle" /\ outcome # "none") =>
        /\ exitCode = 0 <=>
              (outcome = "help" \/ (Completed /\ AllSuccessful(deploymentResults)))
        /\ exitCode = 1 <=> (Completed /\ ~AllSuccessful(deploymentResults))
        /\ exitCode = 2 <=>
              \/ outcome \in {"invalid", "no-modules", "fatal"}
              \/ outcome # "help" /\ NotANumberOrOutside(invocation.concArg)

\* C13 with the --concurrency text judged by what parseInt makes of it: the
\* script exits 2 for it iff parseInt gives NaN or a number outside 1..3.
C13_ExitCodesAsParsed ==
    (pc = "idle" /\ outcome # "none") =>
        /\ exitCode = 0 <=>
              (outcome = "help" \/ (Completed /\ AllSuccessful(deploymentResults)))
        /\ exitCode = 1 <=> (Completed /\ ~AllSuccessful(deploymentResults))
        /\ exitCode = 2 <=>
              \/ outcome \in {"invalid", "no-modules", "fatal"}
              \/ outcome # "help" /\ ~ConcurrencyValid(invocation.concArg)
        /\ outcome = "bad-concurrency" <=>
              (outcome # "help" /\ ~ConcurrencyValid(invocation.concArg))

\* The document gives loadDeploymentState nothing for stage stg: the file is
\* absent, cannot be read, is no valid JSON, or has no entry for the stage.
NothingToLoad(file, stg) ==
    \/ file.status \in {"absent", "unreadable", "corrupt"}
    \/ stg \notin ValidStages
    \/ ~file.doc[stg].has

\* C14: loadDeploymentState returns the empty map when the file is absent,
\* cannot be read, is no valid JSON or has no entry for the stage; the run
\* then goes on, with no previous record for any module: without --force
\* every discovered module is selected as a first deployment.
C14_LoadNeverFatal ==
    /\ \A stg \in StageArgs :
          \A file \in {AbsentFile, CorruptFile, UnreadableFile, SeededFile, stateFile} :
              NothingToLoad(file, stg) => loadDeploymentState(file, stg) = EmptyMap
    /\ (RunSelected /\ NothingToLoad(fileAtStart, stage)) =>
          /\ previousState = EmptyMap
          /\ modulesToDeploy = workspace
          /\ outcome \in {"running", "deployed"}
          /\ \A m \in Modules :
                needsDeployment(m, previousState, stage, runs).reason = "first-deployment"

C14_Witness ==
    /\ RunDone /\ ~forceAll
    /\ fileAtStart = SeededFile /\ stage = "prod"
    /\ modulesToDeploy = workspace

C14_Witness_Corrupt ==
    RunDone /\ ~forceAll /\ fileAtStart = CorruptFile /\ modulesToDeploy = workspace

C14_Witness_Unreadable ==
    RunDone /\ ~forceAll /\ fileAtStart = UnreadableFile /\ modulesToDeploy = workspace

C14_Witness_Absent ==
    RunDone /\ ~forceAll /\ fileAtStart = AbsentFile /\ modulesToDeploy = workspace

\* C15: when the state could not be saved at the end of a run (the file
\* cannot be read or parsed, or the write fails), the run still ends as a
\* completed one: the summary is printed and the exit code is 0 if every
\* deploy succeeded and 1 otherwise, as it is when the state was saved.
C15_SaveFailureNotFatal ==
    RunDone =>
        /\ exitCode = (IF AllSuccessful(deploymentResults) THEN 0 ELSE 1)
        /\ summary
        /\ ~saved => stateFile = fileAtStart

C15_Witness ==
    /\ RunDone /\ ~saved
    /\ fileAtStart = SeededFile
    /\ exitCode = 0
    /\ Len(deploymentResults) = 2

C15_Witness_Failed ==
    /\ RunDone /\ ~saved
    /\ fileAtStart = CorruptFile
    /\ exitCode = 1

\* ------------------------------------------------ claims on the decision
\* `git diff lastCommit HEAD` can be computed: there is a recorded commit, Git
\* works and the commit is one of this repository.
DiffKnown(c) == c # NullCommit /\ gitOk /\ c \in DOMAIN commits

\* The files under the path of module m that differ between commit c and HEAD.
ChangedFiles(m, c) ==
    IF commits[c][m] # commits[Len(commits)][m] THEN {m} ELSE {}

\* The last invocation selected module m.  (The claims below look at a run
\* in a state where the environment is still as the run found it: quiet.)
IsSelected(m) == m \in SeqRange(modulesToDeploy)

\* C16: in a run for prod without --force, a module with a record is
\* deployed when the current commit cannot be determined; otherwise skipped
\* when the current commit is the recorded one; otherwise deployed iff files
\* under its path differ between the recorded commit and HEAD.  (When that
\* difference cannot be computed the module is deployed: C18.)
C16_ProdRule ==
    (RunSelected /\ quiet /\ stage = "prod" /\ ~forceAll) =>
        \A m \in Modules :
            previousState[m].present =>
                LET rec == previousState[m]
                    d == needsDeployment(m, previousState, "prod", runs)
                IN  /\ IsSelected(m) = d.needsDeployment
                    /\ IF getCurrentGitCommit = NullCommit
                       THEN IsSelected(m) /\ d.reason = "no-git"
                       ELSE IF getCurrentGitCommit = rec.gitCommit
                       THEN ~IsSelected(m) /\ d.reason = "same-commit"
                       ELSE IF DiffKnown(rec.gitCommit)
                       THEN /\ IsSelected(m) <=> ChangedFiles(m, rec.gitCommit) # {}
                            /\ d.reason = (IF IsSelected(m) THEN "git-changes"
                                           ELSE "no-git-changes")
                       ELSE IsSelected(m)

\* A run for prod that skips a module whose files differ from the recorded
\* hash, because no file under its path differs between the recorded commit
\* and HEAD.
C16_Witness ==
    /\ RunSelected /\ quiet /\ stage = "prod" /\ ~forceAll
    /\ \E m \in Modules :
          /\ previousState[m].present
          /\ getCurrentGitCommit \notin {NullCommit, previousState[m].gitCommit}
          /\ DiffKnown(previousState[m].gitCommit)
          /\ ChangedFiles(m, previousState[m].gitCommit) = {}
          /\ calculateModuleHash(m, runs) # previousState[m].fileHash
          /\ ~IsSelected(m)

C16_Witness_Changed ==
    /\ RunSelected /\ quiet /\ stage = "prod" /\ ~forceAll
    /\ \E m \in Modules :
          /\ previousState[m].present
          /\ DiffKnown(previousState[m].gitCommit)
          /\ ChangedFiles(m, previousState[m].gitCommit) # {}
          /\ calculateModuleHash(m, runs) = previousState[m].fileHash
          /\ IsSelected(m)

C16_Witness_NoGit ==
    /\ RunSelected /\ quiet /\ stage = "prod" /\ ~forceAll /\ ~gitOk
    /\ \E m \in Modules : previousState[m].present /\ IsSelected(m)

\* What a run started now would load for dev, and what needsDeployment would
\* decide on it for stage stg.
LoadedForDev == loadDeploymentState(stateFile, "dev")

DecisionNow(stg, m) == needsDeployment(m, LoadedForDev, stg, runs + 1)

\* C17: for a stage other than prod, a module with a record is deployed iff
\* the hash computed now differs from the recorded fileHash; the decision is
\* the same whatever Git says: a step that changes only the state of Git
\* (Git becomes available or unavailable, HEAD moves) leaves it unchanged.
C17_HashRule ==
    /\ [](\A stg \in StageArgs \ {"prod"}, m \in Modules :
            LoadedForDev[m].present =>
                /\ DecisionNow(stg, m).needsDeployment
                      <=> calculateModuleHash(m, runs + 1) # LoadedForDev[m].fileHash
                /\ DecisionNow(stg, m).reason \in {"file-changes", "no-changes"})
    /\ []((RunSelected /\ quiet /\ stage # "prod" /\ ~forceAll) =>
            \A m \in Modules :
                previousState[m].present =>
                    (IsSelected(m)
                        <=> calculateModuleHash(m, runs) # previousState[m].fileHash))
    /\ [][(gitOk' # gitOk \/ commits' # commits) =>
            \A stg \in StageArgs \ {"prod"}, m \in Modules :
                DecisionNow(stg, m)' = DecisionNow(stg, m)]_vars

\* A run for dev, with Git unavailable, that skips a module whose hash is the
\* recorded one although its record names another commit.
C17_Witness ==
    /\ RunSelected /\ quiet /\ stage = "dev" /\ ~forceAll /\ ~gitOk
    /\ \E m \in Modules :
          /\ previousState[m].present
          /\ previousState[m].gitCommit # Len(commits)
          /\ calculateModuleHash(m, runs) = previousState[m].fileHash
          /\ ~IsSelected(m)

C17_Witness_Changed ==
    /\ RunSelected /\ quiet /\ stage = "dev" /\ ~forceAll /\ gitOk
    /\ \E m \in Modules :
          /\ previousState[m].present
          /\ previousState[m].gitCommit = Len(commits)
          /\ calculateModuleHash(m, runs) # previousState[m].fileHash
          /\ IsSelected(m)

\* C18: hasGitChanges is true whenever there is no recorded commit, the
\* repository root cannot be resolved or the diff fails, and is false only
\* when the diff succeeds and lists no file under the module's path; a run
\* for prod deploys a module whose diff cannot be computed.
C18_FailOpen ==
    /\ \A m \in Modules, c \in 0..(MaxCommits + 1) :
          /\ (c = NullCommit \/ ~gitOk \/ c \notin DOMAIN commits)
                => hasGitChanges(m, c)
          /\ ~hasGitChanges(m, c) <=> (DiffKnown(c) /\ ChangedFiles(m, c) = {})
    /\ (RunSelected /\ quiet /\ stage = "prod" /\ ~forceAll /\ gitOk) =>
          \A m \in Modules :
              (previousState[m].present /\ ~DiffKnown(previousState[m].gitCommit))
                  => IsSelected(m)

\* A run for prod deploys a module whose record names a commit the repository
\* does not have.
C18_Witness ==
    /\ RunSelected /\ quiet /\ stage = "prod" /\ ~forceAll /\ gitOk
    /\ \E m \in Modules :
          /\ previousState[m].present
          /\ previousState[m].gitCommit # NullCommit
          /\ previousState[m].gitCommit \notin DOMAIN commits
          /\ IsSelected(m)

C18_Witness_NoRecordedCommit ==
    /\ RunSelected /\ quiet /\ stage = "prod" /\ ~forceAll /\ gitOk
    /\ \E m \in Modules :
          /\ previousState[m].present
          /\ previousState[m].gitCommit = NullCommit
          /\ IsSelected(m)

\* ------------------------------------------------ claims on the validator
\* Exactly one of AWS_ACCESS_KEY_ID and AWS_SECRET_ACCESS_KEY is set.
OneKeyOnly(e) == e.accessKey # e.secretKey

\* The validator got past its credential check.
PassesCredentials(stg, e) == validateDeploymentEnvironment(stg, e) # "credentials"

\* C19 as stated: the credential check passes iff both keys are set, or
\* neither is set, AWS_PROFILE is set and the stage is not prod.
C19_CredentialCheckNotProd ==
    invocation.validated =>
        LET e == invocation.env
        IN  PassesCredentials(stage, e) <=>
                \/ e.accessKey /\ e.secretKey
                \/ ~e.accessKey /\ ~e.secretKey /\ e.profile /\ stage # "prod"

\* C19 amended: the credential check passes iff both keys are set, or neither
\* is set, AWS_PROFILE is set and the stage is dev or uat (for any other
\* stage a profile is refused, as it is for prod); with exactly one key set
\* the validator returns false for every stage, whether or not AWS_PROFILE
\* is set, and the script exits 2.
C19_CredentialCheck ==
    /\ \A stg \in StageArgs, e \in ProcessEnvs :
          /\ PassesCredentials(stg, e) <=>
                \/ e.accessKey /\ e.secretKey
                \/ ~e.accessKey /\ ~e.secretKey /\ e.profile /\ stg \in {"dev", "uat"}
          /\ OneKeyOnly(e) => validateDeploymentEnvironment(stg, e) = "credentials"
    /\ invocation.validated =>
          /\ outcome = "invalid" <=>
                validateDeploymentEnvironment(stage, invocation.env) # "ok"
          /\ ~PassesCredentials(stage, invocation.env) =>
                (outcome = "invalid" /\ exitCode = 2)

C19_Witness ==
    /\ invocation.validated /\ outcome = "invalid" /\ exitCode = 2
    /\ stage = "dev"
    /\ invocation.env.accessKey /\ ~invocation.env.secretKey /\ invocation.env.profile
    /\ invocation.env.region /\ invocation.env.slsKey /\ invocation.env.slsInstalled

C19_Witness_Profile ==
    /\ invocation.validated /\ outcome \in {"running", "deployed"}
    /\ stage = "dev"
    /\ ~invocation.env.accessKey /\ ~invocation.env.secretKey /\ invocation.env.profile

\* The five prerequisites, each by itself.
CredentialsMet(stg, e) ==
    \/ e.accessKey /\ e.secretKey
    \/ ~e.accessKey /\ ~e.secretKey /\ e.profile /\ stg \in {"dev", "uat"}

\* The first prerequisite that is not met, in the order credentials, region,
\* SERVERLESS_ACCESS_KEY, stage, deploy tool.
FirstUnmet(stg, e) ==
    IF ~CredentialsMet(stg, e) THEN "credentials"
    ELSE IF ~e.region THEN "region"
    ELSE IF ~e.slsKey THEN "serverless-key"
    ELSE IF stg \notin ValidStages THEN "stage"
    ELSE IF ~e.slsInstalled THEN "serverless-cli"
    ELSE "ok"

\* C20: the validator returns false at the first unmet prerequisite in the
\* order credentials, region, SERVERLESS_ACCESS_KEY, stage, deploy tool; no
\* serverless command is run when one of the first four is unmet, and
\* `serverless login` is not run when `serverless --version` fails; with
\* only AWS_ACCESS_KEY_ID set the failure is the credentials one whatever the
\* region; a tool version below 4 and a failed login only warn: the
\* validator returns true and the run goes on.
C20_ValidatorOrder ==
    /\ \A stg \in StageArgs, e \in ProcessEnvs :
          /\ validateDeploymentEnvironment(stg, e) = FirstUnmet(stg, e)
          /\ ValidationCommands(stg, e) =
                (IF FirstUnmet(stg, e) = "ok"
                 THEN <<"serverless --version", "serverless login">>
                 ELSE IF FirstUnmet(stg, e) = "serverless-cli"
                 THEN <<"serverless --version">>
                 ELSE << >>)
          /\ (e.accessKey /\ ~e.secretKey)
                => validateDeploymentEnvironment(stg, e) = "credentials"
          /\ ValidationWarnings(stg, e) # {}
                => validateDeploymentEnvironment(stg, e) = "ok"
    /\ invocation.validated =>
          /\ outcome = "invalid" <=> FirstUnmet(stage, invocation.env) # "ok"
          /\ outcome = "invalid" => (exitCode = 2 /\ ~RunSelected)

\* A run that went on although the tool is older than version 4 and the
\* login failed.
C20_Witness ==
    /\ invocation.validated /\ outcome = "deployed"
    /\ ValidationWarnings(stage, invocation.env) = {"old-version", "login-failed"}

\* An invocation with only AWS_ACCESS_KEY_ID set and no region, rejected.
C20_Witness_ShortCircuit ==
    /\ invocation.validated /\ outcome = "invalid"
    /\ invocation.env.accessKey /\ ~invocation.env.secretKey
    /\ ~invocation.env.region /\ ~invocation.env.slsInstalled
    /\ ValidationCommands(stage, invocation.env) = << >>


\* The stages displayHelp lists as supported.
DocumentedStages == {"dev", "prod", "uat"}

\* A process environment with valid credentials, region, access key and
\* deploy tool.
EnvComplete(e) ==
    /\ e.accessKey /\ e.secretKey
    /\ e.region /\ e.slsKey /\ e.slsInstalled

\* C21: for each documented stage (dev, prod, uat), an invocation with valid
\* credentials, region, access key and deploy tool passes validation, so the
\* run is not rejected.
C21_DocumentedStagesAccepted ==
    (/\ invocation.validated
     /\ stage \in DocumentedStages
     /\ EnvComplete(invocation.env))
        => /\ validateDeploymentEnvironment(stage, invocation.env) = "ok"
           /\ outcome # "invalid"


\* The last invocation has exited and was not a --help one.
ExitedNoHelp == pc = "idle" /\ outcome \notin {"none", "help"}

\* C22 as stated: every invocation other than --help has printed the summary
\* when it exits, whatever its outcome and exit code.
C22_SummaryAlways == ExitedNoHelp => summary

\* C22: an invocation prints the summary iff deployAllModules returned true,
\* that is iff it exits with 0 or 1; an invocation that exits with 2 (bad
\* --concurrency, failed validation, no module found, escaped exception)
\* prints none.  The summary lists every result of the run in exactly one of
\* successful and failed, and the exit code is 0 iff failed is empty.
C22_SummaryIffStarted ==
    ExitedNoHelp =>
        /\ summary <=> exitCode \in {0, 1}
        /\ summary <=> Completed
        /\ summary =>
             LET s == displayDeploymentSummary(deploymentResults)
             IN  /\ Len(s.successful) + Len(s.failed) = Len(deploymentResults)
                 /\ \A k \in 1..Len(deploymentResults) :
                       LET r == deploymentResults[k]
                       IN  /\ r.success =>
                                 /\ \E a \in 1..Len(s.successful) : s.successful[a] = r
                                 /\ \A b \in 1..Len(s.failed) : s.failed[b].module # r.module
                           /\ ~r.success =>
                                 /\ \E b \in 1..Len(s.failed) : s.failed[b] = r
                                 /\ \A a \in 1..Len(s.successful) :
                                       s.successful[a].module # r.module
                 /\ exitCode = 0 <=> s.failed = << >>

\* A run with one successful and one failed deploy has printed the summary
\* and exited with 1.
C22_Witness ==
    /\ ExitedNoHelp /\ summary /\ exitCode = 1
    /\ Len(displayDeploymentSummary(deploymentResults).successful) = 1
    /\ Len(displayDeploymentSummary(deploymentResults).failed) = 1

\* A run aborted by an exception after a deploy: exit 2 and no summary.
C22_Witness_Fatal ==
    /\ ExitedNoHelp /\ outcome = "fatal" /\ ~summary
    /\ deploymentResults # << >>


\* ------------------------------------------------ the other programs' frame
\* The variables of the deployment script.
deployVars == <<envVars, stateFile, runVars, histVars>>

\* The deployment script has not been invoked: the state a specification of
\* another program keeps the script's variables in.
DeployIdle ==
    /\ workspace = Workspace(1)
    /\ files = [m \in Modules |-> 0]
    /\ unreadable = {}
    /\ commits = << [m \in Modules |-> 0] >>
    /\ gitOk = TRUE
    /\ envChanges = 0
    /\ peer = NoPeer
    /\ stateFile = AbsentFile
    /\ pc = "idle"
    /\ stage = DefaultStage
    /\ concurrency = DefaultConcurrency
    /\ forceAll = FALSE
    /\ previousState = EmptyMap
    /\ modulesToDeploy = << >>
    /\ i = 0
    /\ cmd = << >>
    /\ deploymentResults = << >>
    /\ delays = 0
    /\ saved = FALSE
    /\ summary = FALSE
    /\ outcome = "none"
    /\ batch = << >>
    /\ exitCode = -1
    /\ runs = 0
    /\ fileAtStart = stateFile
    /\ lastAttempt = [s \in ValidStages |-> [m \in Modules |-> "none"]]
    /\ everOk = [s \in ValidStages |-> [m \in Modules |-> FALSE]]
    /\ batches = << >>
    /\ doneOk = [stage |-> "none", ok |-> FALSE]
    /\ prevOk = FALSE
    /\ quiet = TRUE
    /\ invocation = NoInvocation

\* ------------------------------------------- calculateModuleHash, by files
\* File names and file contents are strings over a two-letter alphabet; a
\* relative path is the sequence of its characters, a directory name and the
\* separator standing for themselves.
MaxNameLen == 3
MaxBytes == 1
MaxFiles == 2
MaxHashes == 2
MaxHashClock == 2

Chars == {"a", "b"}
StringsUpTo(n) == UNION {[1..k -> Chars] : k \in 0..n}
FileNames == StringsUpTo(MaxNameLen) \ {<< >>}
FileBytes == StringsUpTo(MaxBytes)

\* The module directory itself, and a subdirectory that is hashed.
TopDir == "."
SubDir == "src"

\* excludePatterns of getModuleFiles, the `*` of `*.log` removed as
\* pattern.replace('*', '') does.
ExcludePatterns ==
    {"node_modules", ".git", ".serverless", "coverage", ".log", ".env.local",
     ".DS_Store"}

\* The excluded directories a file is added under.
ExcludedDirs == {"node_modules", ".git", ".serverless", "coverage"}

\* A file: the directory it is in, its name, its bytes, and whether
\* readFileSync can read it.
FileEntries(dirs, names, flags) ==
    [dir : dirs, name : names, bytes : FileBytes, readable : flags]

\* path.join(relativePath, entry.name)
RelPath(e) == IF e.dir = TopDir THEN e.name ELSE <<e.dir, "/">> \o e.name

\* entry.name.includes(pattern) || relativeFilePath.includes(pattern), for the
\* directory entry and for the file entry.
IsExcluded(e) ==
    \/ e.dir \in ExcludePatterns
    \/ \E k \in 1..Len(e.name) : e.name[k] \in ExcludePatterns

\* Code unit order of the characters that occur in a path.
CharRank(c) ==
    CASE c = "/" -> 0
      [] c = "a" -> 1
      [] c = "b" -> 2
      [] OTHER -> 3

\* p < q as Array.prototype.sort compares two strings.
RECURSIVE PathLess(_, _)
PathLess(p, q) ==
    IF q = << >> THEN FALSE
    ELSE IF p = << >> THEN TRUE
    ELSE IF CharRank(p[1]) # CharRank(q[1]) THEN CharRank(p[1]) < CharRank(q[1])
    ELSE PathLess(Tail(p), Tail(q))

RECURSIVE InsertPath(_, _)
InsertPath(p, sorted) ==
    IF sorted = << >> THEN <<p>>
    ELSE IF PathLess(p, sorted[1]) THEN <<p>> \o sorted
    ELSE <<sorted[1]>> \o InsertPath(p, Tail(sorted))

\* files.sort()
RECURSIVE SortPaths(_)
SortPaths(paths) ==
    IF paths = << >> THEN << >>
    ELSE InsertPath(paths[1], SortPaths(Tail(paths)))

\* The orders in which readdirSync can hand out the files of the directory.
Enumerations(d) ==
    {o \in [1..Cardinality(d.files) -> d.files] :
        \A a, b \in DOMAIN o : a # b => o[a] # o[b]}

\* getModuleFiles(modulePath): the relative paths, in the order walkDir meets
\* them; an excluded entry is skipped, a directory that cannot be read is
\* skipped with all it holds.
RECURSIVE getModuleFiles(_, _)
getModuleFiles(d, order) ==
    IF order = << >> THEN << >>
    ELSE LET e == order[1]
             rest == getModuleFiles(d, Tail(order))
         IN  IF IsExcluded(e) \/ e.dir \in d.locked \/ TopDir \in d.locked
             THEN rest
             ELSE <<RelPath(e)>> \o rest

\* The file of the directory at a relative path.
FileAt(d, p) == CHOOSE e \in d.files : RelPath(e) = p

\* What the hash.update calls feed the digest for the sorted paths.
RECURSIVE DigestInput(_, _)
DigestInput(d, paths) ==
    IF paths = << >> THEN << >>
    ELSE paths[1] \o FileAt(d, paths[1]).bytes \o DigestInput(d, Tail(paths))

\* calculateModuleHash(modulePath) on the files of the directory: sha256 is
\* taken as injective, so the digest stands for its input.  A readFileSync
\* that throws leaves the loop for the catch block.
calculateModuleHashFiles(d, order, now) ==
    LET sorted == SortPaths(getModuleFiles(d, order))
    IN  IF \E k \in 1..Len(sorted) : ~FileAt(d, sorted[k]).readable
        THEN [hash |-> TimeHash(now), files |-> << >>]
        ELSE [hash |-> ShaHash(DigestInput(d, sorted)), files |-> sorted]

\* The subsets of S with at most n elements.
RECURSIVE SetsUpTo(_, _)
SetsUpTo(S, n) ==
    IF n = 0 THEN {{}}
    ELSE LET smaller == SetsUpTo(S, n - 1)
         IN  smaller \cup {x \cup {e} : x \in smaller, e \in S}

\* Module directories: up to MaxFiles files, no two at one path, in the
\* directory itself or (one name) in the subdirectory.
ModuleDirs(names, flags, locks) ==
    LET entries == FileEntries({TopDir}, names, flags)
                       \cup FileEntries({SubDir}, {<<"a">>}, flags)
    IN  {[files |-> fs, locked |-> l] :
            fs \in {x \in SetsUpTo(entries, MaxFiles) :
                      /\ x # {}
                      /\ \A e, f \in x : RelPath(e) = RelPath(f) => e = f},
            l \in locks}

\* Every file and every directory can be read.
HashInit ==
    /\ DeployIdle /\ PubIdle /\ GenIdle /\ InfraIdle /\ SetupIdle /\ SubstIdle /\ ExtractIdle
    /\ moduleDir \in ModuleDirs(FileNames, {TRUE}, {{}})
    /\ hashClock = 0
    /\ hashResults = << >>
    /\ fsOp = "none"

\* Some files or one directory may be unreadable; the names are one character
\* long.
HashFailInit ==
    /\ DeployIdle /\ PubIdle /\ GenIdle /\ InfraIdle /\ SetupIdle /\ SubstIdle /\ ExtractIdle
    /\ moduleDir \in ModuleDirs(StringsUpTo(1) \ {<< >>}, BOOLEAN,
                                 {{}, {SubDir}, {TopDir}})
    /\ hashClock = 0
    /\ hashResults = << >>
    /\ fsOp = "none"

\* One call of calculateModuleHash, dt milliseconds after the call before.
HashModule(order, dt) ==
    /\ Len(hashResults) < MaxHashes
    /\ hashClock + dt <= MaxHashClock
    /\ hashClock' = hashClock + dt
    /\ hashResults' = Append(hashResults,
                             calculateModuleHashFiles(moduleDir, order, hashClock'))
    /\ UNCHANGED <<moduleDir, fsOp, deployVars, notHash>>

\* Between two calls, one byte of an included file is changed.
EditByte(e, k, c) ==
    /\ Len(hashResults) = 1 /\ fsOp = "none"
    /\ e \in moduleDir.files /\ ~IsExcluded(e)
    /\ k \in 1..Len(e.bytes) /\ c # e.bytes[k]
    /\ moduleDir' = [moduleDir EXCEPT !.files =
                        (@ \ {e}) \cup {[e EXCEPT !.bytes[k] = c]}]
    /\ fsOp' = "edit"
    /\ UNCHANGED <<hashClock, hashResults, deployVars, notHash>>

\* Between two calls, an included file is renamed within its directory, to a
\* path no file is at.
RenameFile(e, name) ==
    /\ Len(hashResults) = 1 /\ fsOp = "none"
    /\ e \in moduleDir.files /\ ~IsExcluded(e)
    /\ name # e.name
    /\ \A f \in moduleDir.files : RelPath(f) # RelPath([e EXCEPT !.name = name])
    /\ moduleDir' = [moduleDir EXCEPT !.files =
                        (@ \ {e}) \cup {[e EXCEPT !.name = name]}]
    /\ fsOp' = "rename"
    /\ UNCHANGED <<hashClock, hashResults, deployVars, notHash>>

\* Between two calls, a file is added under an excluded directory.
AddExcluded(e) ==
    /\ Len(hashResults) = 1 /\ fsOp = "none"
    /\ e.dir \in ExcludedDirs
    /\ moduleDir' = [moduleDir EXCEPT !.files = @ \cup {e}]
    /\ fsOp' = "add-excluded"
    /\ UNCHANGED <<hashClock, hashResults, deployVars, notHash>>

\* Between two calls, the first byte of an included file's content is moved
\* to the end of its name.
MoveByte(e) ==
    /\ Len(hashResults) = 1 /\ fsOp = "none"
    /\ e \in moduleDir.files /\ ~IsExcluded(e)
    /\ Len(e.bytes) >= 1
    /\ LET moved == [e EXCEPT !.name = Append(@, e.bytes[1]), !.bytes = Tail(@)]
       IN  /\ \A f \in moduleDir.files : RelPath(f) # RelPath(moved)
           /\ moduleDir' = [moduleDir EXCEPT !.files = (@ \ {e}) \cup {moved}]
    /\ fsOp' = "move"
    /\ UNCHANGED <<hashClock, hashResults, deployVars, notHash>>

HashStep ==
    \E order \in Enumerations(moduleDir), dt \in 0..1 : HashModule(order, dt)

FsStep ==
    \/ \E e \in moduleDir.files, k \in 1..MaxBytes, c \in Chars : EditByte(e, k, c)
    \/ \E e \in moduleDir.files, name \in FileNames : RenameFile(e, name)
    \/ \E e \in FileEntries(ExcludedDirs, {<<"a">>}, {TRUE}) : AddExcluded(e)
    \/ \E e \in moduleDir.files : MoveByte(e)

HashNext == HashStep \/ FsStep

HashSpec == HashInit /\ [][HashNext]_vars

HashFailSpec == HashFailInit /\ [][HashNext]_vars


\* ------------------------------------------------- claims on the fingerprint
\* Two calls of calculateModuleHash have returned.
HashedTwice == Len(hashResults) = 2

\* The parts of C23 other than the renaming: two computations over the same
\* files give the same digest input whatever the enumeration orders; a changed
\* byte of an included file changes it; a file added under an excluded
\* directory does not.
C23_FingerprintButRename ==
    HashedTwice =>
        /\ fsOp = "none" => hashResults[2] = hashResults[1]
        /\ fsOp = "edit" => hashResults[2].hash # hashResults[1].hash
        /\ fsOp = "add-excluded" => hashResults[2] = hashResults[1]

\* C23: calculateModuleHash feeds the digest the same input for the same set
\* of (relative path, bytes) pairs whatever the enumeration order; changing
\* one byte of an included file changes the digest input; renaming an
\* included file to a new included path with the same bytes changes it;
\* adding a file under an excluded directory does not change it.
C23_Fingerprint ==
    /\ C23_FingerprintButRename
    /\ (HashedTwice /\ fsOp = "rename")
          => hashResults[2].hash # hashResults[1].hash


\* Some file that getModuleFiles lists cannot be read.
ListedFileUnreadable ==
    \E e \in moduleDir.files :
        /\ ~e.readable /\ ~IsExcluded(e)
        /\ e.dir \notin moduleDir.locked /\ TopDir \notin moduleDir.locked

\* The part of C24 on directories: while every listed file can be read, two
\* computations over the same files agree, also when a directory cannot be
\* read.
C24_DeterministicButFiles ==
    (HashedTwice /\ fsOp = "none" /\ ~ListedFileUnreadable)
        => hashResults[2] = hashResults[1]

\* C24: two computations of calculateModuleHash over the same filesystem
\* state return the same hash, also when a directory or a file cannot be
\* read.
C24_DeterministicUnderReadFailures ==
    (HashedTwice /\ fsOp = "none") => hashResults[2].hash = hashResults[1].hash


\* ------------------------------------------------------ publish-packages.js
MaxPackages == 2

\* Directory names of individual packages under services/ and utilities/.
ServiceDirNames == {"database", "storage"}
UtilityDirNames == {"array", "logger"}

\* args[0]: one of the six types the usage text lists, or anything else.
PublishTypes ==
    {"all", "services", "utilities", "services-aggregate", "utilities-aggregate",
     "main", "other"}

\* `@myorg/${pkg.name}`
Scoped(n) == <<"@myorg", n>>

\* What readdirSync(dir).filter(isDirectory, not node_modules) can give: the
\* package directories in any order, or an exception (ok = FALSE).
DirListings(names) ==
    {[ok |-> TRUE, entries |-> o] :
        o \in UNION {{q \in [1..k -> names] :
                         \A a, b \in 1..k : a # b => q[a] # q[b]} :
                     k \in 0..MaxPackages}}
    \cup {[ok |-> FALSE, entries |-> << >>]}

\* The `if (publishType === 'all' || publishType === X)` blocks, in the order
\* of the script.

\* Mutant of Sections: the aggregates are published before the individual
\* packages.
SectionsAggregatesFirst ==
    <<"services-aggregate", "services", "utilities-aggregate", "utilities", "main">>

Sections ==
    <<"services", "services-aggregate", "utilities", "utilities-aggregate", "main">>

SectionApplies(sec, type) == type = "all" \/ type = sec

\* The block reads a directory of individual packages.
SectionReadsDir(sec) == sec \in {"services", "utilities"}

\* The packages the block hands to publishPackage, in order.
SectionPackages(sec, dirs) ==
    CASE sec = "services" ->
            [k \in DOMAIN dirs.services.entries |-> Scoped(dirs.services.entries[k])]
      [] sec = "utilities" ->
            [k \in DOMAIN dirs.utilities.entries |-> Scoped(dirs.utilities.entries[k])]
      [] sec = "services-aggregate" -> <<Scoped("services")>>
      [] sec = "utilities-aggregate" -> <<Scoped("utilities")>>
      [] sec = "main" -> <<Scoped("libraries")>>

\* The block's readdirSync throws.
SectionDirFails(sec, dirs) ==
    \/ sec = "services" /\ ~dirs.services.ok
    \/ sec = "utilities" /\ ~dirs.utilities.ok

\* The texts looked for in stderr + message + stdout of a failed npm publish.
ConflictMarkers ==
    {"409", "E409", "already exists", "cannot publish over existing version"}

\* combinedError.includes(marker), the error text given by the markers it
\* holds: a text holding E409 holds 409.
Includes(text, marker) ==
    \/ marker \in text
    \/ marker = "409" /\ "E409" \in text

\* Mutant of IsVersionConflict: only the `already exists` wording counts.
IsVersionConflictWordingOnly(text) == Includes(text, "already exists")

IsVersionConflict(text) == \E marker \in ConflictMarkers : Includes(text, marker)

\* What can happen inside one publishPackage call.
PublishOutcomes ==
    [kind : {"no-package-json", "setup-error", "published"}, text : {{}}]
    \cup [kind : {"npm-error"}, text : {{}} \cup {{marker} : marker \in ConflictMarkers}]

\* publishPackage(packagePath, packageName, registryUrl, authToken)
publishPackage(o) ==
    IF o.kind = "no-package-json" THEN [success |-> FALSE, skipped |-> FALSE]
    ELSE IF o.kind = "setup-error" THEN [success |-> FALSE, skipped |-> FALSE]
    ELSE IF o.kind = "published" THEN [success |-> TRUE, skipped |-> FALSE]
    ELSE IF IsVersionConflict(o.text) THEN [success |-> TRUE, skipped |-> TRUE]
    ELSE [success |-> FALSE, skipped |-> FALSE]

\* The push that follows a publishPackage call.
PushPublishResult(results, name, r) ==
    IF r.success
    THEN IF r.skipped
         THEN [results EXCEPT !.skipped = Append(@, name)]
         ELSE [results EXCEPT !.successful = Append(@, name)]
    ELSE [results EXCEPT !.failed = Append(@, name)]

\* Exit code of the script after the summary.
PublishExitCode(results) == IF Len(results.failed) > 0 THEN 1 ELSE 0

PubInit ==
    /\ DeployIdle /\ HashIdle /\ GenIdle /\ InfraIdle /\ SetupIdle /\ SubstIdle /\ ExtractIdle
    /\ pubArgs \in [type : PublishTypes, registryUrl : BOOLEAN, authToken : BOOLEAN]
    /\ pubDirs \in [services : DirListings(ServiceDirNames),
                    utilities : DirListings(UtilityDirNames)]
    /\ pubPc = "args"
    /\ pubSection = 1
    /\ pubIndex = 0
    /\ attempted = << >>
    /\ publishResults = NoPublishResults
    /\ pubExit = -1

\* The validation of the required parameters.
PubCheckArgs ==
    /\ pubPc = "args"
    /\ IF ~pubArgs.registryUrl \/ ~pubArgs.authToken
       THEN pubPc' = "usage" /\ pubExit' = 1
       ELSE pubPc' = "sections" /\ pubExit' = -1
    /\ UNCHANGED <<pubArgs, pubDirs, pubSection, pubIndex, attempted,
                   publishResults, deployVars, notPub>>

\* A block whose condition is false, or whose directory holds no package.
PubSkipSection ==
    /\ pubPc = "sections" /\ pubSection <= Len(Sections)
    /\ LET sec == Sections[pubSection]
       IN  \/ ~SectionApplies(sec, pubArgs.type)
           \/ /\ ~SectionDirFails(sec, pubDirs)
              /\ SectionPackages(sec, pubDirs) = << >>
    /\ pubSection' = pubSection + 1
    /\ pubIndex' = 0
    /\ UNCHANGED <<pubArgs, pubDirs, pubPc, attempted, publishResults, pubExit,
                   deployVars, notPub>>

\* readdirSync throws: nothing catches it, node ends the process with 1.
PubReadDirFails ==
    /\ pubPc = "sections" /\ pubSection <= Len(Sections)
    /\ SectionApplies(Sections[pubSection], pubArgs.type)
    /\ SectionDirFails(Sections[pubSection], pubDirs)
    /\ pubPc' = "crash"
    /\ pubExit' = 1
    /\ UNCHANGED <<pubArgs, pubDirs, pubSection, pubIndex, attempted,
                   publishResults, deployVars, notPub>>

\* One publishPackage call of the block and the push of its result; after the
\* block's last package the script is at the next block.
PubPublish(o) ==
    /\ pubPc = "sections" /\ pubSection <= Len(Sections)
    /\ LET sec == Sections[pubSection]
           pkgs == SectionPackages(sec, pubDirs)
       IN  /\ SectionApplies(sec, pubArgs.type)
           /\ ~SectionDirFails(sec, pubDirs)
           /\ pubIndex < Len(pkgs)
           /\ attempted' = Append(attempted, pkgs[pubIndex + 1])
           /\ publishResults' = PushPublishResult(publishResults, pkgs[pubIndex + 1],
                                           publishPackage(o))
           /\ IF pubIndex + 1 = Len(pkgs)
              THEN pubSection' = pubSection + 1 /\ pubIndex' = 0
              ELSE pubSection' = pubSection /\ pubIndex' = pubIndex + 1
    /\ UNCHANGED <<pubArgs, pubDirs, pubPc, pubExit, deployVars, notPub>>

\* The results summary and the end of the script.
PubSummary ==
    /\ pubPc = "sections" /\ pubSection = Len(Sections) + 1
    /\ pubPc' = "done"
    /\ pubExit' = PublishExitCode(publishResults)
    /\ UNCHANGED <<pubArgs, pubDirs, pubSection, pubIndex, attempted,
                   publishResults, deployVars, notPub>>

PubNext ==
    \/ PubCheckArgs
    \/ PubSkipSection
    \/ PubReadDirFails
    \/ \E o \in PublishOutcomes : PubPublish(o)
    \/ PubSummary

PubSpec == PubInit /\ [][PubNext]_vars


\* ------------------------------------------------- claims on the publishing
\* publishPackage was called for the package before the k-th call.
AttemptedBefore(name, k) == \E j \in 1..(k - 1) : attempted[j] = name

\* The individual packages of the two directories.
IndividualServices ==
    {Scoped(pubDirs.services.entries[k]) : k \in DOMAIN pubDirs.services.entries}
IndividualUtilities ==
    {Scoped(pubDirs.utilities.entries[k]) : k \in DOMAIN pubDirs.utilities.entries}

\* C25: with publish type `all`, every individual service package is
\* attempted before the services aggregate, every individual utility package
\* before the utilities aggregate, and @myorg/libraries only after all
\* individual and aggregate packages have been attempted.
C25_PublishOrder ==
    pubArgs.type = "all" =>
        \A k \in DOMAIN attempted :
            /\ attempted[k] = Scoped("services") =>
                  \A n \in IndividualServices : AttemptedBefore(n, k)
            /\ attempted[k] = Scoped("utilities") =>
                  \A n \in IndividualUtilities : AttemptedBefore(n, k)
            /\ attempted[k] = Scoped("libraries") =>
                  \A n \in IndividualServices \cup IndividualUtilities
                           \cup {Scoped("services"), Scoped("utilities")} :
                      AttemptedBefore(n, k)

\* A run of type `all` over two service and two utility packages that went
\* to its end although an individual package failed.
C25_Witness ==
    /\ pubArgs.type = "all" /\ pubPc = "done"
    /\ Cardinality(IndividualServices) = 2 /\ Cardinality(IndividualUtilities) = 2
    /\ Len(attempted) = 7
    /\ attempted[7] = Scoped("libraries")
    /\ \E k \in DOMAIN publishResults.failed :
          publishResults.failed[k] \in IndividualServices


\* The number of entries of a list that are the name.
Occurrences(list, name) == Cardinality({k \in DOMAIN list : list[k] = name})

\* A failed npm publish whose error tells that the version exists gives
\* success with skip, and every package handed to publishPackage is in
\* exactly one of the three lists.
SkipsAndLists ==
    /\ \A o \in PublishOutcomes :
          (o.kind = "npm-error" /\ o.text \cap ConflictMarkers # {})
              => publishPackage(o) = [success |-> TRUE, skipped |-> TRUE]
    /\ \A k \in DOMAIN attempted :
          Occurrences(publishResults.successful, attempted[k])
            + Occurrences(publishResults.skipped, attempted[k])
            + Occurrences(publishResults.failed, attempted[k]) = 1
    /\ Len(publishResults.successful) + Len(publishResults.skipped)
         + Len(publishResults.failed) = Len(attempted)

\* C26 as stated: the above, and the script exits with code 1 iff the failed
\* list is non-empty.
C26_ExitOneIffFailed ==
    /\ SkipsAndLists
    /\ pubExit # -1 => (pubExit = 1 <=> Len(publishResults.failed) > 0)

\* C26: the above, and a script that reaches its results summary exits with
\* code 1 iff the failed list is non-empty, else with 0, so skipped packages
\* never make it fail; a script that was not given the registry URL or the
\* token, or whose readdirSync throws, exits with code 1 before the summary
\* whatever the lists hold.
C26_SkipNotFailure ==
    /\ SkipsAndLists
    /\ pubPc = "done" =>
          /\ pubExit \in {0, 1}
          /\ pubExit = 1 <=> Len(publishResults.failed) > 0
    /\ pubPc \in {"usage", "crash"} => pubExit = 1
    /\ pubPc \in {"args", "sections"} => pubExit = -1

\* A script that ended with skipped packages only and exit code 0.
C26_Witness ==
    /\ pubPc = "done" /\ pubExit = 0
    /\ Len(publishResults.skipped) >= 2
    /\ publishResults.successful = << >>

\* A script that exited with 1 while no package had failed.
C26_Witness_Crash ==
    /\ pubPc = "crash" /\ publishResults.failed = << >> /\ attempted # << >>


\* -------------------------------------------------------- generate-npmrc.js
MaxGenCalls == 2
MaxGenClock == 2

\* Contents a .npmrc written by someone else may have.
ForeignNpmrc == {[kind |-> "foreign", v |-> 1], [kind |-> "foreign", v |-> 2]}

\* The scope argument, with or without its leading @, and the registry URL,
\* with or without a trailing slash.
ScopeArgs == {[at |-> TRUE, name |-> "myorg"], [at |-> FALSE, name |-> "myorg"]}
RegistryUrlArgs == {[host |-> "registry", slash |-> TRUE],
                    [host |-> "registry", slash |-> FALSE]}

\* formatNpmrcContent(registryUrl, authToken, scope), at time now.
formatNpmrcContent(registryUrl, scope, now) ==
    [kind |-> "generated",
     scope |-> [scope EXCEPT !.at = TRUE],
     registry |-> registryUrl,
     registryHost |-> registryUrl.host,
     generated |-> now]

\* Mutant of backupExistingNpmrc: an existing file is reported as backed up
\* without being copied.
backupExistingNpmrcNoCopy(d, now, copyOk) ==
    IF d.denied THEN [dir |-> d, result |-> "throw"]
    ELSE IF d.npmrc = NoFile THEN [dir |-> d, result |-> "false"]
    ELSE [dir |-> d, result |-> "true"]

\* backupExistingNpmrc(targetDir): the directory after it and what it
\* returns.  fs.access fails with ENOENT when there is no .npmrc and with
\* another error when the file cannot be looked at; copyFile replaces a
\* backup of the same timestamp.
backupExistingNpmrc(d, now, copyOk) ==
    IF d.denied THEN [dir |-> d, result |-> "throw"]
    ELSE IF d.npmrc = NoFile THEN [dir |-> d, result |-> "false"]
    ELSE IF ~copyOk THEN [dir |-> d, result |-> "throw"]
    ELSE [dir |-> [d EXCEPT !.backups =
                      {b \in @ : b.stamp # now}
                          \cup {[stamp |-> now, content |-> d.npmrc]}],
          result |-> "true"]

GenInit ==
    /\ DeployIdle /\ HashIdle /\ PubIdle /\ InfraIdle /\ SetupIdle /\ SubstIdle /\ ExtractIdle
    /\ targetDir \in [exists : BOOLEAN, npmrc : {NoFile} \cup ForeignNpmrc,
                      denied : BOOLEAN, backups : {{}}, mode : {"0644"}]
    /\ targetDir.npmrc = NoFile => ~targetDir.denied
    /\ ~targetDir.exists => targetDir.npmrc = NoFile
    /\ genPc = "ready"
    /\ genClock = 0
    /\ genLog = NoGenLog

\* The call of generateNpmrc up to the end of fs.access(targetDir).
GenStart ==
    /\ genPc \in {"ready", "done", "thrown"}
    /\ genLog.calls < MaxGenCalls
    /\ genLog' = [before |-> targetDir.npmrc, backupsBefore |-> targetDir.backups,
                  cause |-> IF targetDir.exists THEN "none" ELSE "no-dir",
                  calls |-> genLog.calls + 1]
    /\ genPc' = IF targetDir.exists THEN "backup" ELSE "thrown"
    /\ UNCHANGED <<targetDir, genClock, deployVars, notGen>>

\* await backupExistingNpmrc(targetDir)
GenBackup(copyOk) ==
    /\ genPc = "backup"
    /\ LET r == backupExistingNpmrc(targetDir, genClock, copyOk)
       IN  /\ targetDir' = r.dir
           /\ genPc' = IF r.result = "throw" THEN "thrown" ELSE "write"
           /\ genLog' = [genLog EXCEPT !.cause =
                            IF r.result # "throw" THEN "none"
                            ELSE IF targetDir.denied THEN "access" ELSE "copy"]
    /\ UNCHANGED <<genClock, deployVars, notGen>>

\* formatNpmrcContent and await fs.writeFile(npmrcPath, content)
GenWrite(registryUrl, scope, writeOk) ==
    /\ genPc = "write"
    /\ IF writeOk
       THEN /\ targetDir' = [targetDir EXCEPT
                                !.npmrc = formatNpmrcContent(registryUrl, scope, genClock),
                                !.mode = IF targetDir.npmrc = NoFile THEN "0644" ELSE @]
            /\ genPc' = "chmod"
            /\ UNCHANGED genLog
       ELSE /\ genPc' = "thrown"
            /\ genLog' = [genLog EXCEPT !.cause = "write"]
            /\ UNCHANGED targetDir
    /\ UNCHANGED <<genClock, deployVars, notGen>>

\* await fs.chmod(npmrcPath, 0o600)
GenChmod(chmodOk) ==
    /\ genPc = "chmod"
    /\ IF chmodOk
       THEN /\ targetDir' = [targetDir EXCEPT !.mode = "0600"]
            /\ genPc' = "done"
            /\ UNCHANGED genLog
       ELSE /\ genPc' = "thrown"
            /\ genLog' = [genLog EXCEPT !.cause = "chmod"]
            /\ UNCHANGED targetDir
    /\ UNCHANGED <<genClock, deployVars, notGen>>

\* Time passes.
GenTick ==
    /\ genClock < MaxGenClock
    /\ genClock' = genClock + 1
    /\ UNCHANGED <<targetDir, genPc, genLog, deployVars, notGen>>

GenNext ==
    \/ GenStart
    \/ \E copyOk \in BOOLEAN : GenBackup(copyOk)
    \/ \E registryUrl \in RegistryUrlArgs, scope \in ScopeArgs, writeOk \in BOOLEAN :
          GenWrite(registryUrl, scope, writeOk)
    \/ \E chmodOk \in BOOLEAN : GenChmod(chmodOk)
    \/ GenTick

GenSpec == GenInit /\ [][GenNext]_vars


\* --------------------------------------------------- claims on the .npmrc
\* A backup named after some timestamp holds the content.
BackupHolds(content) == \E b \in targetDir.backups : b.content = content

\* The step replaces an existing .npmrc by another content.
ReplacesNpmrc ==
    /\ targetDir.npmrc # NoFile
    /\ targetDir'.npmrc # targetDir.npmrc

\* C27: when generateNpmrc replaces an existing .npmrc, a backup
\* .npmrc.backup.<timestamp> holding the previous content exists before the new
\* content is written (and still after it); when no .npmrc exists no backup
\* is created; if the backup copy fails generateNpmrc throws and the .npmrc
\* is left unmodified; if the target directory does not exist it throws
\* without writing anything.
C27_BackupBeforeOverwrite ==
    /\ [](genLog.calls > 0 =>
            /\ (genPc \in {"chmod", "done"} /\ genLog.before # NoFile)
                  => BackupHolds(genLog.before)
            /\ genLog.before = NoFile => targetDir.backups = genLog.backupsBefore
            /\ genLog.cause \in {"copy", "access"} =>
                  /\ genPc = "thrown"
                  /\ targetDir.npmrc = genLog.before
                  /\ targetDir.backups = genLog.backupsBefore
            /\ genLog.cause = "no-dir" =>
                  /\ genPc = "thrown"
                  /\ ~targetDir.exists
                  /\ targetDir.npmrc = NoFile /\ targetDir.backups = {})
    /\ [][ReplacesNpmrc => (genPc = "write" /\ BackupHolds(targetDir.npmrc))]_vars

\* A foreign .npmrc was replaced by a generated one and its content is in a
\* backup.
C27_Witness ==
    /\ genPc = "done"
    /\ genLog.before \in ForeignNpmrc
    /\ targetDir.npmrc.kind = "generated"
    /\ BackupHolds(genLog.before)
    /\ targetDir.mode = "0600"

\* The copy of the backup failed.
C27_Witness_CopyFailed ==
    /\ genPc = "thrown" /\ genLog.cause = "copy"
    /\ targetDir.npmrc \in ForeignNpmrc

\* The second call replaced the .npmrc the first call had generated.
C27_Witness_Regenerated ==
    /\ genPc = "done" /\ genLog.calls = 2
    /\ genLog.before.kind = "generated"
    /\ targetDir.npmrc # genLog.before
    /\ Cardinality(targetDir.backups) = 2


\* --------------------------------------------------- create-infrastructure.js
MaxEnsureCalls == 3

\* The resources, in the order createInfrastructure ensures them.
ResourceKinds == <<"domain", "repository", "connection">>

\* The registries CodeArtifact can be in: a repository lives in a domain, an
\* external connection on a repository.
Registries ==
    {r \in [domain : BOOLEAN, repository : BOOLEAN, connection : BOOLEAN] :
        (r.repository => r.domain) /\ (r.connection => r.repository)}

\* The client calls an ensure function issues for a resource.
CheckCall(kind) ==
    CASE kind = "domain" -> "domainExists"
      [] kind = "repository" -> "repositoryExists"
      [] kind = "connection" -> "hasExternalConnection"
CreateCall(kind) ==
    CASE kind = "domain" -> "createDomain"
      [] kind = "repository" -> "createRepository"
      [] kind = "connection" -> "associateExternalConnection"

\* The service creates a repository only in a domain, and associates a
\* connection only to a repository.
CanCreate(r, kind) ==
    CASE kind = "domain" -> TRUE
      [] kind = "repository" -> r.domain
      [] kind = "connection" -> r.repository

\* What an ensure function returns, or that it threw.
EnsureThrown == [success |-> FALSE, created |-> FALSE, exists |-> FALSE, thrown |-> TRUE]
EnsureReturn(created) ==
    [success |-> TRUE, created |-> created, exists |-> ~created, thrown |-> FALSE]

\* What can happen to the client calls of one ensure function: nothing, the
\* existence check throws, the create call throws, or another actor creates
\* the resource between the existence check and the create call.
ClientFailures == {"none", "check", "create", "raced"}

\* What createDomain, createRepository and associateExternalConnection of
\* the client return: a ResourceAlreadyExistsException is caught and answered
\* with success.
CreateAnswer(alreadyExists) == [success |-> TRUE, created |-> ~alreadyExists]

\* Mutant of ensureResource: the resource is created without looking whether
\* it exists.
ensureResourceAlwaysCreate(kind, r, fail) ==
    IF fail = "create" \/ ~CanCreate(r, kind)
    THEN [registry |-> r, calls |-> <<CreateCall(kind)>>, result |-> EnsureThrown,
          raced |-> FALSE]
    ELSE [registry |-> [r EXCEPT ![kind] = TRUE],
          calls |-> <<CreateCall(kind)>>, result |-> EnsureReturn(TRUE),
          raced |-> FALSE]

\* ensureDomain, ensureRepository and ensureExternalConnection: the registry
\* after the call, the client calls issued, the result, and whether another
\* actor created the resource between the two client calls.  After the
\* create call only result.success is looked at.
ensureResource(kind, r, fail) ==
    IF fail = "check"
    THEN [registry |-> r, calls |-> <<CheckCall(kind)>>, result |-> EnsureThrown,
          raced |-> FALSE]
    ELSE IF r[kind]
    THEN [registry |-> r, calls |-> <<CheckCall(kind)>>, result |-> EnsureReturn(FALSE),
          raced |-> FALSE]
    ELSE IF fail = "create" \/ ~CanCreate(r, kind)
    THEN [registry |-> r, calls |-> <<CheckCall(kind), CreateCall(kind)>>,
          result |-> EnsureThrown, raced |-> FALSE]
    ELSE LET answer == CreateAnswer(fail = "raced")
         IN  [registry |-> [r EXCEPT ![kind] = TRUE],
              calls |-> <<CheckCall(kind), CreateCall(kind)>>,
              result |-> IF answer.success THEN EnsureReturn(TRUE) ELSE EnsureThrown,
              raced |-> fail = "raced"]

ensureDomain(r, fail) == ensureResource("domain", r, fail)
ensureRepository(r, fail) == ensureResource("repository", r, fail)
ensureExternalConnection(r, fail) == ensureResource("connection", r, fail)

\* The record of one ensure call.
EnsureRecord(kind, r, e) ==
    [kind |-> kind, before |-> r, after |-> e.registry, calls |-> e.calls,
     result |-> e.result, raced |-> e.raced]

InfraInit ==
    /\ DeployIdle /\ HashIdle /\ PubIdle /\ GenIdle /\ SetupIdle /\ SubstIdle /\ ExtractIdle
    /\ registry \in Registries
    /\ ensured = << >>

EnsureDomain(fail) ==
    /\ Len(ensured) < MaxEnsureCalls
    /\ LET e == ensureDomain(registry, fail)
       IN  /\ registry' = e.registry
           /\ ensured' = Append(ensured, EnsureRecord("domain", registry, e))
    /\ UNCHANGED <<deployVars, notInfra>>

EnsureRepository(fail) ==
    /\ Len(ensured) < MaxEnsureCalls
    /\ LET e == ensureRepository(registry, fail)
       IN  /\ registry' = e.registry
           /\ ensured' = Append(ensured, EnsureRecord("repository", registry, e))
    /\ UNCHANGED <<deployVars, notInfra>>

EnsureExternalConnection(fail) ==
    /\ Len(ensured) < MaxEnsureCalls
    /\ LET e == ensureExternalConnection(registry, fail)
       IN  /\ registry' = e.registry
           /\ ensured' = Append(ensured, EnsureRecord("connection", registry, e))
    /\ UNCHANGED <<deployVars, notInfra>>

InfraNext ==
    \/ \E fail \in ClientFailures : EnsureDomain(fail)
    \/ \E fail \in ClientFailures : EnsureRepository(fail)
    \/ \E fail \in ClientFailures : EnsureExternalConnection(fail)

InfraSpec == InfraInit /\ [][InfraNext]_vars

\* ------------------------------------------------ claims on the provisioning
\* C28: an ensure call on a resource that exists issues no create or
\* associate call and returns created=false, exists=true (unless the
\* existence check itself throws); two calls in a row for the same resource
\* leave the registry as one call does, the first reporting created=true
\* when the resource did not exist and the second created=false.
C28_IdempotentProvisioning ==
    \A k \in DOMAIN ensured :
        LET c == ensured[k]
        IN  /\ (c.before[c.kind] /\ ~c.result.thrown) =>
                  /\ c.calls = <<CheckCall(c.kind)>>
                  /\ c.result.success /\ ~c.result.created /\ c.result.exists
                  /\ c.after = c.before
            /\ c.before[c.kind] => CreateCall(c.kind) \notin {c.calls[j] : j \in DOMAIN c.calls}
            /\ (k > 1 /\ ensured[k - 1].kind = c.kind
                      /\ ~ensured[k - 1].result.thrown /\ ~c.result.thrown) =>
                  /\ c.after = ensured[k - 1].after
                  /\ ~c.result.created /\ c.result.exists
                  /\ ~ensured[k - 1].before[c.kind] => ensured[k - 1].result.created

\* ensureRepository was called twice in a row on a domain without the
\* repository: created=true, then created=false.
C28_Witness ==
    /\ Len(ensured) >= 2
    /\ ensured[1].kind = "repository" /\ ensured[2].kind = "repository"
    /\ ~ensured[1].before.repository
    /\ ensured[1].result.created /\ ~ensured[1].result.exists
    /\ ~ensured[2].result.created /\ ensured[2].result.exists
    /\ ensured[2].calls = <<"repositoryExists">>
    /\ registry.repository


\* ------------------------------------- resolveEnvVars (setup-codeartifact.js)
MaxTemplateLen == 5

\* A configuration string is a sequence of pieces: the opening `${`, the
\* closing `}`, a variable name, the `:-` of the documented default syntax, a
\* default text, and other text.
TemplatePieces == {"${", "}", "VAR", ":-", "dflt", "x"}
Templates == UNION {[1..n -> TemplatePieces] : n \in 0..MaxTemplateLen}

\* process.env: VAR is not set, set to the empty string, or set to a text.
ProcessEnvironments ==
    {{}, {[name |-> <<"VAR">>, value |-> << >>]},
         {[name |-> <<"VAR">>, value |-> <<"val">>]}}

IsSet(env, name) == \E b \in env : b.name = name
ValueOf(env, name) == (CHOOSE b \in env : b.name = name).value

\* Position of the first `}` of the string, 0 if there is none.
FirstClose(str) ==
    IF \E j \in DOMAIN str : str[j] = "}"
    THEN CHOOSE j \in DOMAIN str :
            str[j] = "}" /\ \A h \in 1..(j - 1) : str[h] # "}"
    ELSE 0

Resolved(text) == [status |-> "ok", text |-> text]
NotSet(name) == [status |-> "throw", text |-> name]

\* resolveEnvVars(str): str.replace(/\$\{([^}]+)\}/g, ...).  A match is `${`,
\* one or more characters other than `}`, and `}`; all that stands between
\* the braces is the variable name looked up in process.env.
RECURSIVE resolveEnvVars(_, _)
resolveEnvVars(str, env) ==
    IF str = << >> THEN Resolved(<< >>)
    ELSE LET rest == Tail(str)
             j == FirstClose(rest)
         IN  IF str[1] = "${" /\ j >= 2
             THEN LET name == SubSeq(rest, 1, j - 1)
                  IN  IF ~IsSet(env, name) THEN NotSet(name)
                      ELSE LET r == resolveEnvVars(SubSeq(rest, j + 1, Len(rest)), env)
                           IN  IF r.status = "throw" THEN r
                               ELSE Resolved(ValueOf(env, name) \o r.text)
             ELSE LET r == resolveEnvVars(rest, env)
                  IN  IF r.status = "throw" THEN r
                      ELSE Resolved(<<str[1]>> \o r.text)

SubstInit ==
    /\ DeployIdle /\ HashIdle /\ PubIdle /\ GenIdle /\ InfraIdle /\ SetupIdle /\ ExtractIdle
    /\ template \in Templates
    /\ procEnv \in ProcessEnvironments
    /\ resolution = [status |-> "none", text |-> << >>]

\* One call of resolveEnvVars on the string.
ResolveTemplate ==
    /\ resolution.status = "none"
    /\ resolution' = resolveEnvVars(template, procEnv)
    /\ UNCHANGED <<template, procEnv, deployVars, notSubst>>

SubstNext == ResolveTemplate

SubstSpec == SubstInit /\ [][SubstNext]_vars

\* ------------------------------------------------ claims on the substitution
\* Text around a placeholder.
PlainTexts == {<< >>, <<"x">>}

\* The part of C29 on ${VAR}: it resolves to VAR's value when VAR is set and
\* the resolution fails when VAR is not set.
C29_RequiredVariable ==
    resolution.status # "none" =>
        \A pre, post \in PlainTexts :
            template = pre \o <<"${", "VAR", "}">> \o post =>
                IF IsSet(procEnv, <<"VAR">>)
                THEN resolution = Resolved(pre \o ValueOf(procEnv, <<"VAR">>) \o post)
                ELSE resolution.status = "throw"

\* C29: ${VAR} resolves to VAR's value and the resolution fails when VAR is
\* not set; ${VAR:-default} resolves to VAR's value when VAR is set and to
\* `default` when VAR is not set, without failing.
C29_Substitution ==
    /\ C29_RequiredVariable
    /\ (resolution.status # "none"
            /\ template = <<"${", "VAR", ":-", "dflt", "}">>) =>
          resolution = Resolved(IF IsSet(procEnv, <<"VAR">>)
                                THEN ValueOf(procEnv, <<"VAR">>)
                                ELSE <<"dflt">>)


\* ----------------------------------------------------- setup-codeartifact.js
MaxConsumers == 2

\* The loaded configurations: codeartifact.externalConnection given or not,
\* and the number of directories in paths.consumers.
SetupConfigs == [externalConnection : BOOLEAN, consumers : 0..MaxConsumers]

\* One line of the run: the step performed and whether it succeeded.
SetupStep(step, ok) == [step |-> step, ok |-> ok]

\* Mutant of Proceed: a failed step is followed by the next step.
ProceedAnyway(ok, next) == [pc |-> next, exit |-> -1]

\* After a step inside the try blocks of executeSetup and main: the next step
\* when it succeeded; when it threw, executeSetup rethrows and main's catch
\* calls process.exit(1).
Proceed(ok, next) ==
    IF ok THEN [pc |-> next, exit |-> -1] ELSE [pc |-> "done", exit |-> 1]

\* The number of consumer directories handled so far.
NpmrcDone(log) == Cardinality({k \in DOMAIN log : log[k].step = "npmrc"})

SetupInit ==
    /\ DeployIdle /\ HashIdle /\ PubIdle /\ GenIdle /\ SubstIdle /\ ExtractIdle
    /\ registry \in Registries
    /\ ensured = << >>
    /\ setupCfg \in SetupConfigs
    /\ setupPc = "install"
    /\ setupLog = << >>
    /\ setupExit = -1

\* main, step 0: npm install; a failure is only a warning.
SetupInstall(ok) ==
    /\ setupPc = "install"
    /\ setupLog' = Append(setupLog, SetupStep("install", ok))
    /\ setupPc' = "config"
    /\ UNCHANGED <<setupCfg, setupExit, infraVars, deployVars, notSetup>>

\* main: loadConfiguration returns the configuration or throws.
SetupLoadConfiguration(ok) ==
    /\ setupPc = "config"
    /\ setupLog' = Append(setupLog, SetupStep("config", ok))
    /\ LET p == Proceed(ok, "domain")
       IN  setupPc' = p.pc /\ setupExit' = p.exit
    /\ UNCHANGED <<setupCfg, infraVars, deployVars, notSetup>>

\* executeSetup step 1, createInfrastructure: ensureDomain.
SetupEnsureDomain(fail) ==
    /\ setupPc = "domain"
    /\ LET e == ensureDomain(registry, fail)
           p == Proceed(~e.result.thrown, "repository")
       IN  /\ registry' = e.registry
           /\ ensured' = Append(ensured, EnsureRecord("domain", registry, e))
           /\ setupLog' = Append(setupLog, SetupStep("domain", ~e.result.thrown))
           /\ setupPc' = p.pc /\ setupExit' = p.exit
    /\ UNCHANGED <<setupCfg, deployVars, notSetup>>

\* createInfrastructure: ensureRepository; the external connection follows
\* only if the configuration names one.
SetupEnsureRepository(fail) ==
    /\ setupPc = "repository"
    /\ LET e == ensureRepository(registry, fail)
           p == Proceed(~e.result.thrown,
                        IF setupCfg.externalConnection THEN "connection" ELSE "token")
       IN  /\ registry' = e.registry
           /\ ensured' = Append(ensured, EnsureRecord("repository", registry, e))
           /\ setupLog' = Append(setupLog, SetupStep("repository", ~e.result.thrown))
           /\ setupPc' = p.pc /\ setupExit' = p.exit
    /\ UNCHANGED <<setupCfg, deployVars, notSetup>>

\* createInfrastructure: ensureExternalConnection.
SetupEnsureExternalConnection(fail) ==
    /\ setupPc = "connection"
    /\ LET e == ensureExternalConnection(registry, fail)
           p == Proceed(~e.result.thrown, "token")
       IN  /\ registry' = e.registry
           /\ ensured' = Append(ensured, EnsureRecord("connection", registry, e))
           /\ setupLog' = Append(setupLog, SetupStep("connection", ~e.result.thrown))
           /\ setupPc' = p.pc /\ setupExit' = p.exit
    /\ UNCHANGED <<setupCfg, deployVars, notSetup>>

\* What client.getAuthorizationToken does: returns a token, returns a result
\* without a token, or throws.
TokenOutcomes == {"token", "empty", "throw"}

\* executeSetup step 2: the authorization token.
SetupToken(tokenResult) ==
    /\ setupPc = "token"
    /\ setupLog' = Append(setupLog, SetupStep("token", tokenResult = "token"))
    /\ LET p == Proceed(tokenResult = "token", "endpoint")
       IN  setupPc' = p.pc /\ setupExit' = p.exit
    /\ UNCHANGED <<setupCfg, infraVars, deployVars, notSetup>>

\* executeSetup step 2: client.getRepositoryEndpoint returns or throws.
SetupEndpoint(ok) ==
    /\ setupPc = "endpoint"
    /\ setupLog' = Append(setupLog, SetupStep("endpoint", ok))
    /\ LET p == Proceed(ok, "publish")
       IN  setupPc' = p.pc /\ setupExit' = p.exit
    /\ UNCHANGED <<setupCfg, infraVars, deployVars, notSetup>>

\* executeSetup step 3: fs.access on the publish script, then execSync of
\* `publish-packages.js all`, which throws when the script exits non-zero.
SetupPublish(accessOk, publishExit) ==
    /\ setupPc = "publish"
    /\ LET ok == accessOk /\ publishExit = 0
           p == Proceed(ok, "npmrc")
       IN  /\ setupLog' = IF accessOk
                          THEN setupLog \o <<SetupStep("access", TRUE),
                                             SetupStep("publish", ok)>>
                          ELSE Append(setupLog, SetupStep("access", FALSE))
           /\ setupPc' = p.pc /\ setupExit' = p.exit
    /\ UNCHANGED <<setupCfg, infraVars, deployVars, notSetup>>

\* executeSetup step 4, one consumer directory: fs.access and generateNpmrc
\* inside the loop's own try/catch; a failure is recorded and the loop goes
\* on.
SetupNpmrc(ok) ==
    /\ setupPc = "npmrc"
    /\ NpmrcDone(setupLog) < setupCfg.consumers
    /\ setupLog' = Append(setupLog, SetupStep("npmrc", ok))
    /\ UNCHANGED <<setupCfg, setupPc, setupExit, infraVars, deployVars, notSetup>>

\* executeSetup returns; main calls displaySummary and process.exit(0).
SetupSummary ==
    /\ setupPc = "npmrc"
    /\ NpmrcDone(setupLog) = setupCfg.consumers
    /\ setupLog' = Append(setupLog, SetupStep("summary", TRUE))
    /\ setupPc' = "done"
    /\ setupExit' = 0
    /\ UNCHANGED <<setupCfg, infraVars, deployVars, notSetup>>

SetupNext ==
    \/ \E ok \in BOOLEAN : SetupInstall(ok)
    \/ \E ok \in BOOLEAN : SetupLoadConfiguration(ok)
    \/ \E fail \in ClientFailures : SetupEnsureDomain(fail)
    \/ \E fail \in ClientFailures : SetupEnsureRepository(fail)
    \/ \E fail \in ClientFailures : SetupEnsureExternalConnection(fail)
    \/ \E tokenResult \in TokenOutcomes : SetupToken(tokenResult)
    \/ \E ok \in BOOLEAN : SetupEndpoint(ok)
    \/ \E accessOk \in BOOLEAN, publishExit \in {0, 1} : SetupPublish(accessOk, publishExit)
    \/ \E ok \in BOOLEAN : SetupNpmrc(ok)
    \/ SetupSummary

SetupSpec == SetupInit /\ [][SetupNext]_vars

\* ------------------------------------------------------- claims on the setup
\* The steps of a complete run, in the order the claim gives them.
StepsInOrder(cfg) ==
    <<"install", "config", "domain", "repository">>
        \o (IF cfg.externalConnection THEN <<"connection">> ELSE << >>)
        \o <<"token", "endpoint", "access", "publish">>
        \o [k \in 1..cfg.consumers |-> "npmrc"]
        \o <<"summary">>

\* The steps whose failure ends the setup.
HaltingSteps ==
    {"config", "domain", "repository", "connection", "token", "endpoint",
     "access", "publish"}

Halted(k) == ~setupLog[k].ok /\ setupLog[k].step \in HaltingSteps

C30_Witness_Complete ==
    /\ setupCfg.externalConnection /\ setupCfg.consumers = MaxConsumers
    /\ setupExit = 0
    /\ registry.connection
    /\ \E k \in DOMAIN setupLog : setupLog[k] = SetupStep("npmrc", FALSE)


\* ------------------------------------ DeploymentManager.extractEndpoints
MaxLines == 4

\* Two execute-api URLs, the first a leading part of the second, and an
\* https URL of another host.
ShortUrl == "https://a.execute-api.r.amazonaws.com/dev"
LongUrl == "https://a.execute-api.r.amazonaws.com/dev/users"
OtherUrl == "https://s.example.com/dev"

IsExecuteApiUrl(w) == w \in {ShortUrl, LongUrl}
IsHttpsUrl(w) == w \in {ShortUrl, LongUrl, OtherUrl}

\* String.includes between two words: u occurs in w.
WordIncludes(w, u) == w = u \/ (w = LongUrl /\ u = ShortUrl)

\* A line of the output is the sequence of its blank-separated words.
OutputLines ==
    {<< >>, <<"endpoints:">>, <<"functions:">>, <<"Service Information">>,
     <<"Deploying">>, <<"GET", "-", ShortUrl>>, <<"GET", "-", LongUrl>>,
     <<"-", ShortUrl>>, <<ShortUrl>>, <<LongUrl>>, <<"url:", OtherUrl>>}

\* The outputs of a deploy command: output.split('\n') has at least one line,
\* and the empty string is the single empty line.
Outputs == UNION {[1..n -> OutputLines] : n \in 1..MaxLines}

LineIncludes(line, w) == \E k \in DOMAIN line : WordIncludes(line[k], w)

EntryPrefixes == {"-", "GET", "POST", "PUT", "DELETE", "PATCH", "OPTIONS", "HEAD"}

\* line.trim().startsWith('- ') or a method followed by a blank.
StartsEntry(line) == Len(line) >= 2 /\ line[1] \in EntryPrefixes

\* Pattern 1, the loop over the lines from line k on.
RECURSIVE EndpointsSection(_, _, _)
EndpointsSection(lines, k, inEndpointsSection) ==
    IF k > Len(lines) THEN << >>
    ELSE IF LineIncludes(lines[k], "endpoints:")
    THEN EndpointsSection(lines, k + 1, TRUE)
    ELSE IF ~inEndpointsSection THEN EndpointsSection(lines, k + 1, FALSE)
    ELSE IF StartsEntry(lines[k])
    THEN <<lines[k]>> \o EndpointsSection(lines, k + 1, TRUE)
    ELSE IF lines[k] = << >> \/ LineIncludes(lines[k], "functions:")
                             \/ LineIncludes(lines[k], "layers:")
    THEN << >>
    ELSE EndpointsSection(lines, k + 1, TRUE)

\* The words of the lines, in order.
RECURSIVE WordsOf(_)
WordsOf(lines) ==
    IF lines = << >> THEN << >> ELSE Head(lines) \o WordsOf(Tail(lines))

\* urls.forEach(url => { if (!endpoints.some(e => e.includes(url))) push }).
RECURSIVE PushUrls(_, _)
PushUrls(list, urls) ==
    IF urls = << >> THEN list
    ELSE PushUrls(IF \E k \in DOMAIN list : LineIncludes(list[k], Head(urls))
                  THEN list
                  ELSE Append(list, <<Head(urls)>>),
                  Tail(urls))

\* The line that ends a match of serviceInfoPattern: an empty line, or one
\* starting with `Stack Outputs` or `functions:`.
EndsServiceInfo(line) ==
    line = << >> \/ line[1] \in {"Stack Outputs", "functions:"}

\* output.match(serviceInfoPattern): the lines from the first
\* `Service Information` up to the first line followed by an ending line; no
\* match without an ending line.
ServiceInfo(lines) ==
    LET starts == {k \in DOMAIN lines : LineIncludes(lines[k], "Service Information")}
    IN  IF starts = {} THEN << >>
        ELSE LET first == CHOOSE k \in starts : \A h \in starts : k <= h
                 ends == {k \in first..(Len(lines) - 1) : EndsServiceInfo(lines[k + 1])}
             IN  IF ends = {} THEN << >>
                 ELSE SubSeq(lines, first, CHOOSE k \in ends : \A h \in ends : k <= h)

extractEndpoints(output) ==
    IF output = << << >> >> THEN << >>
    ELSE LET section == EndpointsSection(output, 1, FALSE)
             direct == PushUrls(section, SelectSeq(WordsOf(output), IsExecuteApiUrl))
             all == PushUrls(direct, SelectSeq(WordsOf(ServiceInfo(output)), IsHttpsUrl))
             NonEmpty(e) == Len(e) > 0
         IN  SelectSeq(all, NonEmpty)

ExtractInit ==
    /\ DeployIdle /\ HashIdle /\ PubIdle /\ GenIdle /\ InfraIdle /\ SetupIdle /\ SubstIdle
    /\ deployOutput \in Outputs
    /\ endpoints = [called |-> FALSE, list |-> << >>]

\* One call of extractEndpoints on the output.
ExtractEndpoints ==
    /\ ~endpoints.called
    /\ endpoints' = [called |-> TRUE, list |-> extractEndpoints(deployOutput)]
    /\ UNCHANGED <<deployOutput, deployVars, notExtract>>

ExtractNext == ExtractEndpoints

ExtractSpec == ExtractInit /\ [][ExtractNext]_vars

\* ------------------------------------------------- claims on the endpoints
NoDuplicates(list) ==
    \A j, k \in DOMAIN list : list[j] = list[k] => j = k

\* The output has none of the three shapes.
MatchesNoPattern(output) ==
    \A k \in DOMAIN output :
        /\ ~LineIncludes(output[k], "endpoints:")
        /\ ~LineIncludes(output[k], "Service Information")
        /\ \A j \in DOMAIN output[k] : ~IsHttpsUrl(output[k][j])

\* The part of C31 on the URLs and the empty list: a URL found by the second
\* or the third pattern is in the list once, and the list is empty for an
\* empty output and for an output that matches no pattern.
C31_UrlsOnceAndEmpty ==
    endpoints.called =>
        /\ \A j, k \in DOMAIN endpoints.list :
              (endpoints.list[j] = endpoints.list[k] /\ Len(endpoints.list[j]) = 1)
                  => j = k
        /\ (deployOutput = << << >> >> \/ MatchesNoPattern(deployOutput))
              => endpoints.list = << >>

\* C31: the list returned by extractEndpoints has no duplicate entries,
\* whichever of the three shapes they come from, and it is empty when the
\* output is empty or matches no pattern.
C31_NoDuplicateEndpoints ==
    endpoints.called =>
        /\ NoDuplicates(endpoints.list)
        /\ (deployOutput = << << >> >> \/ MatchesNoPattern(deployOutput))
              => endpoints.list = << >>


\* ------------------------------------- runs over a state document of earlier runs
\* The record an earlier run for stage s can have left for a module: none,
\* or one with the commit and the content it deployed.
SeedRecords(s) ==
    {NoRecord} \cup
    {[present |-> TRUE, deployedAt |-> 0, gitCommit |-> c,
      fileHash |-> ShaHash(v), stage |-> s] :
        c \in 1..MaxCommits, v \in 0..MaxVersion}

\* The state documents earlier runs can have left: both stages have an entry,
\* with a record or none for every module of the workspace and for the
\* module that is no longer discovered.
SeededDocs ==
    {[status |-> "ok",
      doc |-> [s \in ValidStages |-> [has |-> TRUE, map |-> recs[s]]]] :
        recs \in {f \in [ValidStages -> [RecordKeys -> SeedRecords("dev") \cup SeedRecords("prod")]] :
                     \A s \in ValidStages, m \in RecordKeys :
                         /\ f[s][m] \in SeedRecords(s)
                         /\ f[s][m].present = f["dev"][m].present
                         /\ f[s][m].gitCommit = f["dev"][m].gitCommit
                         /\ f[s][m].fileHash = f["dev"][m].fileHash}}

\* Two runs of the script in an environment that does not change, on a state
\* document of earlier runs; every commit but HEAD had other content.
SeededInit ==
    /\ ToolsIdle
    /\ workspace = Workspace(NumModules)
    /\ files = [m \in Modules |-> 0]
    /\ unreadable = {}
    /\ commits = [k \in 1..MaxCommits |->
                     [m \in Modules |-> IF k = MaxCommits THEN 0 ELSE OtherVersion(0)]]
    /\ gitOk \in BOOLEAN
    /\ envChanges = 0
    /\ peer = NoPeer
    /\ stateFile \in SeededDocs
    /\ pc = "idle"
    /\ stage = DefaultStage
    /\ concurrency = DefaultConcurrency
    /\ forceAll = FALSE
    /\ previousState = EmptyMap
    /\ modulesToDeploy = << >>
    /\ i = 0
    /\ cmd = << >>
    /\ deploymentResults = << >>
    /\ delays = 0
    /\ saved = FALSE
    /\ summary = FALSE
    /\ outcome = "none"
    /\ batch = << >>
    /\ exitCode = -1
    /\ runs = 0
    /\ fileAtStart = stateFile
    /\ lastAttempt = [s \in ValidStages |-> [m \in Modules |-> "none"]]
    /\ everOk = [s \in ValidStages |-> [m \in Modules |-> FALSE]]
    /\ batches = << >>
    /\ doneOk = [stage |-> "none", ok |-> FALSE]
    /\ prevOk = FALSE
    /\ quiet = TRUE
    /\ invocation = NoInvocation

\* No --concurrency argument, or the smallest one.
SeededConcArgs ==
    {c \in ConcArgs : ~c.given \/ (~c.nan /\ ~c.junk /\ c.value = MinConcurrency)}

SeededMainStep ==
    \E stageArg \in StageArgs, concArg \in SeededConcArgs, forceArg \in BOOLEAN :
        /\ runs < MaxRuns
        /\ MainRun(stageArg, concArg, forceArg, GoodEnv)
        /\ UNCHANGED invocation

SeededNext == RunStep \/ SeededMainStep

SeededSpec == SeededInit /\ [][SeededNext]_vars

\* ---------------------------------------------------- claims on the retry
\* A run starts for the stage of the run that just ended, without --force,
\* and the environment has not changed since that run started.
NextRunSameStage ==
    /\ RunDone /\ quiet
    /\ runs' = runs + 1
    /\ stage' = stage
    /\ ~forceAll'

\* The modules whose attempt failed in the run that just ended.
FailedModules ==
    {deploymentResults[k].module :
        k \in {h \in DOMAIN deploymentResults : ~deploymentResults[h].success}}

\* The part of C32 on runs without --force: a module whose attempt failed in
\* a run that was not forced is selected by the next run for the same stage.
C32_UnforcedFailureRetried ==
    [][(NextRunSameStage /\ ~forceAll) =>
          \A m \in FailedModules : m \in SeqRange(modulesToDeploy')]_vars

\* C32: a module whose attempt failed in a run for a stage, forced or not, is
\* selected by the next run for the same stage without --force when nothing
\* else has changed.
C32_FailedRetried ==
    [][NextRunSameStage =>
          \A m \in FailedModules : m \in SeqRange(modulesToDeploy')]_vars


\* ------------------------------------ claims on a malformed state document
\* The run that just ended started on a state document that could not be
\* parsed, selected every module and deployed every one of them.
DeployedAllFromMalformed ==
    /\ RunDone
    /\ fileAtStart.status = "corrupt"
    /\ modulesToDeploy = workspace
    /\ Len(deploymentResults) = Len(workspace)
    /\ AllSuccessful(deploymentResults)

\* The save of such a run leaves a document that can be read and holds the
\* record of every module.
SaveReplacesMalformed ==
    DeployedAllFromMalformed =>
        /\ stateFile.status = "ok"
        /\ \A m \in Modules : DocHas(stage, m)

\* The run after such a run, for the same stage and with nothing changed,
\* selects no module.
RunAfterMalformedSkipsAll ==
    [][(DeployedAllFromMalformed /\ quiet /\ runs' = runs + 1
            /\ stage' = stage /\ ~forceAll') => modulesToDeploy' = << >>]_vars

\* C33: when the state document is malformed at the start of a run and every
\* deploy of the run succeeds, the run's save replaces the document with a
\* valid one holding the new records, and the following run with nothing
\* changed skips every module.
C33_RecoversFromMalformed ==
    []SaveReplacesMalformed /\ RunAfterMalformedSkipsAll


\* ------------------------------------- claims on the digest input
\* The change made between the two calls changed the set of included
\* (relative path, bytes) pairs.
IncludedPairsChanged == fsOp \in {"edit", "rename", "move"}

\* The part of C34 on bytes changed in place: a changed byte of an included
\* file changes the byte stream.
C34_EditChangesStream ==
    (HashedTwice /\ fsOp = "edit") => hashResults[2].hash # hashResults[1].hash

\* C34: two sets of included (relative path, bytes) pairs that differ feed
\* the digest different byte streams; moving bytes between a file's name and
\* its content never gives the same stream.
C34_InjectiveOnFileSets ==
    /\ (HashedTwice /\ fsOp = "move")
          => hashResults[2].hash # hashResults[1].hash
    /\ (HashedTwice /\ IncludedPairsChanged)
          => hashResults[2].hash # hashResults[1].hash

\* -------------------------------------------- the exclusion of getModuleFiles
\* File names in pieces: a piece that is an exclusion pattern stands for an
\* occurrence of the pattern in the name.  `a.log` ends in .log, `.loga`
\* and `coveragea` only contain a pattern, `coverage` is one exactly.
PatternNames ==
    {<<"a">>, <<"a", ".log">>, <<".log", "a">>, <<"coverage">>,
     <<"coverage", "a">>, <<"a", ".DS_Store">>}

\* Module directories with such names, and a file under node_modules.
ExcludeInit ==
    /\ DeployIdle /\ PubIdle /\ GenIdle /\ InfraIdle /\ SetupIdle /\ SubstIdle /\ ExtractIdle
    /\ moduleDir \in
          {[files |-> fs, locked |-> {}] :
              fs \in SetsUpTo(FileEntries({TopDir}, PatternNames, {TRUE})
                                \cup FileEntries({"node_modules"}, {<<"a">>}, {TRUE}),
                              MaxFiles) \ {{}}}
    /\ hashClock = 0
    /\ hashResults = << >>
    /\ fsOp = "none"

\* Between two calls, one byte of a file that getModuleFiles skips is
\* changed.
EditSkipped(e, k, c) ==
    /\ Len(hashResults) = 1 /\ fsOp = "none"
    /\ e \in moduleDir.files /\ IsExcluded(e)
    /\ k \in 1..Len(e.bytes) /\ c # e.bytes[k]
    /\ moduleDir' = [moduleDir EXCEPT !.files =
                        (@ \ {e}) \cup {[e EXCEPT !.bytes[k] = c]}]
    /\ fsOp' = "edit-skipped"
    /\ UNCHANGED <<hashClock, hashResults, deployVars, notHash>>

ExcludeNext ==
    \/ HashStep
    \/ \E e \in moduleDir.files, k \in 1..MaxBytes, c \in Chars : EditByte(e, k, c)
    \/ \E e \in moduleDir.files, k \in 1..MaxBytes, c \in Chars : EditSkipped(e, k, c)

ExcludeSpec == ExcludeInit /\ [][ExcludeNext]_vars

\* ------------------------------------------------- claims on the exclusion
\* The names the claim excludes as a whole path component.
ExactNames ==
    {"node_modules", ".git", ".serverless", "coverage", ".env.local", ".DS_Store"}

\* A path component of the file is exactly an excluded name, or its name
\* ends in .log.
ExcludedExactly(e) ==
    \/ e.dir \in ExactNames
    \/ Len(e.name) = 1 /\ e.name[1] \in ExactNames
    \/ e.name[Len(e.name)] = ".log"

Listed(e, k) ==
    \E j \in DOMAIN hashResults[k].files : hashResults[k].files[j] = RelPath(e)

\* The part of C35 on the excluded files: a file with a path component that
\* is exactly an excluded name, or with a name ending in .log, is left out.
C35_ExcludedLeftOut ==
    (Len(hashResults) >= 1 /\ fsOp = "none") =>
        \A e \in moduleDir.files : ExcludedExactly(e) => ~Listed(e, 1)

\* C35: a file is left out of the fingerprint only if a component of its path
\* is exactly an excluded name or its name ends in .log; every other file is
\* included, and a change to it changes the fingerprint.
C35_ExclusionExact ==
    /\ C35_ExcludedLeftOut
    /\ (Len(hashResults) >= 1 /\ fsOp = "none") =>
          \A e \in moduleDir.files : ~ExcludedExactly(e) => Listed(e, 1)
    /\ (HashedTwice /\ fsOp = "edit-skipped"
            /\ \A e \in moduleDir.files : IsExcluded(e) => ~ExcludedExactly(e))
          => hashResults[2].hash # hashResults[1].hash


\* ------------------------------------------ claims on the untouched records
\* The record of module m in the stage's map when the run started.
RecordAtStart(m) == loadDeploymentState(fileAtStart, stage)[m]

\* C36: after a run that saved, the record of every module the run did not
\* select (skipped, or not discovered) is the one it had when the run
\* started, and every module that had a record still has one.
C36_UntouchedRecordsKept ==
    (RunDone /\ saved) =>
        \A m \in RecordKeys :
            /\ m \notin SeqRange(modulesToDeploy) => DocRecord(stage, m) = RecordAtStart(m)
            /\ RecordAtStart(m).present => DocRecord(stage, m).present

\* A run saved after it deployed one module of the workspace and skipped
\* another that has a record, while a module that is no longer discovered has
\* a record too.
C36_Witness ==
    /\ RunDone /\ saved
    /\ \E m \in RemovedModules : RecordAtStart(m).present /\ DocHas(stage, m)
    /\ \E m \in Modules :
          /\ m \notin SeqRange(modulesToDeploy)
          /\ RecordAtStart(m).present
    /\ \E k \in DOMAIN deploymentResults :
          /\ deploymentResults[k].success
          /\ DocRecord(stage, deploymentResults[k].module)
                # RecordAtStart(deploymentResults[k].module)


\* ------------------------------------------- claims on the .npmrc file mode
\* The part of C37 on a call that has returned: after generateNpmrc returned
\* the file holds the token and has mode 0600.
C37_ModeAfterReturn ==
    (genPc = "done" /\ genLog.calls > 0) =>
        targetDir.npmrc.kind = "generated" /\ targetDir.mode = "0600"

\* C37: in every state in which the target .npmrc holds the authorization
\* token generateNpmrc wrote, the file has mode 0600, for a new file and for
\* an overwritten one.
C37_TokenNeverExposed ==
    targetDir.npmrc.kind = "generated" => targetDir.mode = "0600"


\* ------------------------------------------- claims on the created flag
\* The part of C38 without a race: when no other actor creates the resource
\* during the call, created=true is returned only by a call whose create
\* call created it.
C38_CreatedTruthfulAlone ==
    \A k \in DOMAIN ensured :
        (ensured[k].result.created /\ ~ensured[k].raced) =>
            /\ ~ensured[k].before[ensured[k].kind]
            /\ ensured[k].after[ensured[k].kind]
            /\ CreateCall(ensured[k].kind)
                  \in {ensured[k].calls[j] : j \in DOMAIN ensured[k].calls}

\* C38: an ensure function returns created=true only if its own call
\* created the resource; when another actor creates it between the existence
\* check and the create call, the result has created=false.
C38_CreatedTruthful ==
    /\ C38_CreatedTruthfulAlone
    /\ \A k \in DOMAIN ensured :
          (ensured[k].raced /\ ~ensured[k].result.thrown) => ~ensured[k].result.created


\* ------------------------------------------- claims on the setup's success
\* Some consumer's .npmrc could not be generated.
NpmrcFailed == \E k \in DOMAIN setupLog : setupLog[k] = SetupStep("npmrc", FALSE)

\* The part of C39 that holds: the setup exits with code 0 only after the
\* infrastructure, the token, the endpoint and the publishing succeeded and
\* every consumer was processed, also after a consumer failed.
C39_SuccessAfterHaltingSteps ==
    setupExit = 0 =>
        /\ \A k \in DOMAIN setupLog :
              setupLog[k].step \in HaltingSteps => setupLog[k].ok
        /\ \E k \in DOMAIN setupLog : setupLog[k] = SetupStep("publish", TRUE)
        /\ NpmrcDone(setupLog) = setupCfg.consumers
        /\ setupLog[Len(setupLog)] = SetupStep("summary", TRUE)

====
